---------------------------- MODULE Spec2Model ----------------------------
(***************************************************************************)
(* A model of the comparison and JSON-path extraction engine of llm_judge: *)
(* JSONExtractor (utils/json_extractor.py), TextComparator and             *)
(* BatchComparator (utils/comparator.py) and the run_single_test methods   *)
(* of LLMTester and HTTPTester.                                            *)
(*                                                                         *)
(* Texts are TLA+ strings and are processed character by character, as the *)
(* Python code does.  Python values are tagged records:                    *)
(*   None   [t |-> "null"]            bool  [t |-> "bool", b |-> TRUE]     *)
(*   int    [t |-> "int", n |-> 5]    str   [t |-> "str", s |-> "ab"]      *)
(*   list   [t |-> "list", items |-> <<...>>]                              *)
(*   dict   [t |-> "dict", keys |-> <<...>>, vals |-> <<...>>]             *)
(* (a dict keeps its keys in insertion order, as Python does).  A call     *)
(* that may raise yields Return(v) or Raise(exc, msg).                     *)
(***************************************************************************)
EXTENDS Integers, Sequences, FiniteSets, TLC

None == [t |-> "null"]
StrV(s) == [t |-> "str", s |-> s]
IntV(n) == [t |-> "int", n |-> n]
BoolV(b) == [t |-> "bool", b |-> b]
ListV(items) == [t |-> "list", items |-> items]
DictV(keys, vals) == [t |-> "dict", keys |-> keys, vals |-> vals]

Return(v) == [raised |-> FALSE, exc |-> "", msg |-> "", value |-> v]
Raise(exc, msg) == [raised |-> TRUE, exc |-> exc, msg |-> msg, value |-> None]

\* LET x == v IN F(x), with v written once
Let(v, F(_)) == F(v)

(***************************************************************************)
(* Python str operations used by the code.                                 *)
(***************************************************************************)
Min(a, b) == IF a < b THEN a ELSE b
Max(a, b) == IF a > b THEN a ELSE b

\* s[i-1] for a 1-based i; "" outside the string
Char(s, i) == IF 1 <= i /\ i <= Len(s) THEN SubSeq(s, i, i) ELSE ""

\* s[i-1:j] for 1-based inclusive bounds, clipped to the string as slicing is
Slice(s, i, j) == SubSeq(s, Max(i, 1), Min(j, Len(s)))

startswith(s, prefix) == Slice(s, 1, Len(prefix)) = prefix

endswith(s, suffix) == Len(suffix) <= Len(s) /\ Slice(s, Len(s) - Len(suffix) + 1, Len(s)) = suffix

RECURSIVE FindFrom(_, _, _)
\* the least 1-based i >= from at which sub occurs in s, 0 when there is none
FindFrom(s, sub, from) ==
    IF from + Len(sub) - 1 > Len(s) THEN 0
    ELSE IF Slice(s, from, from + Len(sub) - 1) = sub THEN from
    ELSE FindFrom(s, sub, from + 1)

\* str.find: the 0-based index of the first occurrence, -1 when there is none
find(s, sub) == FindFrom(s, sub, 1) - 1

\* sub in s
contains(s, sub) == FindFrom(s, sub, 1) # 0

Whitespace == {" ", "\t", "\n", "\r", "\f"}

RECURSIVE lstrip(_)
lstrip(s) == IF s # "" /\ Head(s) \in Whitespace THEN lstrip(Tail(s)) ELSE s

RECURSIVE rstrip(_)
rstrip(s) ==
    IF s # "" /\ Char(s, Len(s)) \in Whitespace THEN rstrip(Slice(s, 1, Len(s) - 1)) ELSE s

strip(s) == lstrip(rstrip(s))

RECURSIVE rstrip_chars(_, _)
\* s.rstrip(c) for a one-character c
rstrip_chars(s, c) ==
    IF s # "" /\ Char(s, Len(s)) = c THEN rstrip_chars(Slice(s, 1, Len(s) - 1), c) ELSE s

UpperChars == "ABCDEFGHIJKLMNOPQRSTUVWXYZ"
LowerChars == "abcdefghijklmnopqrstuvwxyz"

LowerChar(c) ==
    LET k == FindFrom(UpperChars, c, 1) IN IF c # "" /\ k # 0 THEN Char(LowerChars, k) ELSE c

RECURSIVE lower(_)
lower(s) == IF s = "" THEN "" ELSE LowerChar(Head(s)) \o lower(Tail(s))

RECURSIVE SplitWs(_, _, _)
\* s.split(): the maximal runs of non-whitespace characters
SplitWs(s, cur, acc) ==
    IF s = "" THEN (IF cur = "" THEN acc ELSE Append(acc, cur))
    ELSE IF Head(s) \in Whitespace
         THEN SplitWs(Tail(s), "", IF cur = "" THEN acc ELSE Append(acc, cur))
         ELSE SplitWs(Tail(s), cur \o Head(s), acc)

split(s) == SplitWs(s, "", <<>>)

RECURSIVE join(_, _)
\* sep.join(parts)
join(sep, parts) ==
    IF parts = <<>> THEN ""
    ELSE IF Len(parts) = 1 THEN parts[1]
    ELSE parts[1] \o sep \o join(sep, Tail(parts))

RECURSIVE SplitLinesFrom(_, _, _)
SplitLinesFrom(s, cur, acc) ==
    IF s = "" THEN (IF cur = "" THEN acc ELSE Append(acc, cur))
    ELSE IF Head(s) = "\n" THEN SplitLinesFrom(Tail(s), "", Append(acc, cur))
    ELSE SplitLinesFrom(Tail(s), cur \o Head(s), acc)

\* s.splitlines() (the texts of the model break lines with "\n" only)
splitlines(s) == SplitLinesFrom(s, "", <<>>)

DigitChars == "0123456789"
IsDigit(c) == c # "" /\ FindFrom(DigitChars, c, 1) # 0
DigitVal(c) == FindFrom(DigitChars, c, 1) - 1

RECURSIVE ScanDigits(_, _, _)
ScanDigits(s, i, acc) ==
    IF IsDigit(Char(s, i)) THEN ScanDigits(s, i + 1, acc * 10 + DigitVal(Char(s, i)))
    ELSE [val |-> acc, pos |-> i]

\* int(s) of a str: an optional sign and decimal digits, ValueError otherwise
\* (the surrounding blanks and "_" separators int() also accepts occur in no
\* text of the model)
int(s) ==
    LET signed == Char(s, 1) \in {"-", "+"}
        d == ScanDigits(s, IF signed THEN 2 ELSE 1, 0)
    IN  IF s = "" \/ ~IsDigit(Char(s, IF signed THEN 2 ELSE 1)) \/ d.pos # Len(s) + 1
        THEN Raise("ValueError", "invalid literal for int() with base 10: " \o s)
        ELSE Return(IF Char(s, 1) = "-" THEN 0 - d.val ELSE d.val)

(***************************************************************************)
(* json.loads: the JSON grammar over objects, arrays, strings with         *)
(* escapes, integers and the three literals.  Number literals with a       *)
(* fraction or an exponent, \u escapes and NaN/Infinity occur in no text   *)
(* of the model.                                                           *)
(***************************************************************************)
JsonWs == {" ", "\t", "\n", "\r"}

RECURSIVE SkipWs(_, _)
SkipWs(s, i) == IF Char(s, i) \in JsonWs THEN SkipWs(s, i + 1) ELSE i

ParseFail == [ok |-> FALSE, val |-> None, pos |-> 0]
ParseOk(v, p) == [ok |-> TRUE, val |-> v, pos |-> p]

ParseNumber(s, i) ==
    LET j == IF Char(s, i) = "-" THEN i + 1 ELSE i
        d == IF Char(s, j) = "0" THEN [val |-> 0, pos |-> j + 1] ELSE ScanDigits(s, j, 0)
    IN  IF ~IsDigit(Char(s, j)) THEN ParseFail
        ELSE ParseOk(IntV(IF j > i THEN 0 - d.val ELSE d.val), d.pos)

Unescape(c) ==
    CASE c = "n" -> "\n"
      [] c = "t" -> "\t"
      [] c = "r" -> "\r"
      [] c = "f" -> "\f"
      [] OTHER -> c

RECURSIVE ParseString(_, _, _)
\* i is the position after the opening quote
ParseString(s, i, acc) ==
    LET c == Char(s, i) IN
    IF c = "" \/ c \in {"\n", "\t", "\r", "\f"} THEN ParseFail
    ELSE IF c = "\"" THEN ParseOk(StrV(acc), i + 1)
    ELSE IF c = "\\"
         THEN IF Char(s, i + 1) \in {"\"", "\\", "/", "n", "t", "r", "f"}
              THEN ParseString(s, i + 2, acc \o Unescape(Char(s, i + 1)))
              ELSE ParseFail
    ELSE ParseString(s, i + 1, acc \o c)

RECURSIVE IndexOf(_, _, _)
\* the least i >= from with seq[i] = x, 0 when there is none
IndexOf(seq, x, from) ==
    IF from > Len(seq) THEN 0
    ELSE IF seq[from] = x THEN from
    ELSE IndexOf(seq, x, from + 1)

\* d[k] = v on a dict: a key already present keeps its place
DictSet(d, k, v) ==
    LET at == IndexOf(d.keys, k, 1) IN
    IF at = 0 THEN DictV(Append(d.keys, k), Append(d.vals, v))
    ELSE DictV(d.keys, [d.vals EXCEPT ![at] = v])

RECURSIVE ParseValue(_, _)
RECURSIVE ParseItems(_, _, _)
RECURSIVE ParseMembers(_, _, _)

ParseItems(s, i, acc) ==
    LET r == ParseValue(s, i)
        j == SkipWs(s, r.pos)
    IN  IF ~r.ok THEN ParseFail
        ELSE IF Char(s, j) = "]" THEN ParseOk(ListV(Append(acc, r.val)), j + 1)
        ELSE IF Char(s, j) = "," THEN ParseItems(s, SkipWs(s, j + 1), Append(acc, r.val))
        ELSE ParseFail

\* i is the position of the opening quote of the next key
ParseMembers(s, i, d) ==
    LET k == ParseString(s, i + 1, "")
        c == SkipWs(s, k.pos)
        r == ParseValue(s, SkipWs(s, c + 1))
        j == SkipWs(s, r.pos)
    IN  IF Char(s, i) # "\"" \/ ~k.ok \/ Char(s, c) # ":" \/ ~r.ok THEN ParseFail
        ELSE IF Char(s, j) = "}" THEN ParseOk(DictSet(d, k.val.s, r.val), j + 1)
        ELSE IF Char(s, j) = "," THEN ParseMembers(s, SkipWs(s, j + 1), DictSet(d, k.val.s, r.val))
        ELSE ParseFail

ParseValue(s, i) ==
    LET c == Char(s, i) IN
    IF c = "{"
    THEN (IF Char(s, SkipWs(s, i + 1)) = "}"
          THEN ParseOk(DictV(<<>>, <<>>), SkipWs(s, i + 1) + 1)
          ELSE ParseMembers(s, SkipWs(s, i + 1), DictV(<<>>, <<>>)))
    ELSE IF c = "["
    THEN (IF Char(s, SkipWs(s, i + 1)) = "]"
          THEN ParseOk(ListV(<<>>), SkipWs(s, i + 1) + 1)
          ELSE ParseItems(s, SkipWs(s, i + 1), <<>>))
    ELSE IF c = "\"" THEN ParseString(s, i + 1, "")
    ELSE IF Slice(s, i, i + 3) = "null" THEN ParseOk(None, i + 4)
    ELSE IF Slice(s, i, i + 3) = "true" THEN ParseOk(BoolV(TRUE), i + 4)
    ELSE IF Slice(s, i, i + 4) = "false" THEN ParseOk(BoolV(FALSE), i + 5)
    ELSE IF c = "-" \/ IsDigit(c) THEN ParseNumber(s, i)
    ELSE ParseFail

json_loads(s) ==
    LET r == ParseValue(s, SkipWs(s, 1)) IN
    IF r.ok /\ SkipWs(s, r.pos) = Len(s) + 1 THEN Return(r.val)
    ELSE Raise("JSONDecodeError", "invalid JSON")

EscapeChar(c) ==
    CASE c = "\"" -> "\\\""
      [] c = "\\" -> "\\\\"
      [] c = "\n" -> "\\n"
      [] c = "\t" -> "\\t"
      [] c = "\r" -> "\\r"
      [] c = "\f" -> "\\f"
      [] OTHER -> c

RECURSIVE EscapeStr(_)
EscapeStr(s) == IF s = "" THEN "" ELSE EscapeChar(Head(s)) \o EscapeStr(Tail(s))

RECURSIVE json_dumps(_)
RECURSIVE DumpItems(_, _)
RECURSIVE DumpMembers(_, _)

DumpItems(items, i) ==
    IF i > Len(items) THEN ""
    ELSE (IF i > 1 THEN "," ELSE "") \o json_dumps(items[i]) \o DumpItems(items, i + 1)

DumpMembers(d, i) ==
    IF i > Len(d.keys) THEN ""
    ELSE (IF i > 1 THEN "," ELSE "") \o "\"" \o EscapeStr(d.keys[i]) \o "\":"
         \o json_dumps(d.vals[i]) \o DumpMembers(d, i + 1)

\* json.dumps(v, ensure_ascii=False, separators=(',', ':'))
json_dumps(v) ==
    CASE v.t = "null" -> "null"
      [] v.t = "bool" -> (IF v.b THEN "true" ELSE "false")
      [] v.t = "int" -> ToString(v.n)
      [] v.t = "str" -> "\"" \o EscapeStr(v.s) \o "\""
      [] v.t = "list" -> "[" \o DumpItems(v.items, 1) \o "]"
      [] v.t = "dict" -> "{" \o DumpMembers(v, 1) \o "}"

\* str(v) of a value that is no dict and no list
str(v) ==
    CASE v.t = "null" -> "None"
      [] v.t = "bool" -> (IF v.b THEN "True" ELSE "False")
      [] v.t = "int" -> ToString(v.n)
      [] v.t = "str" -> v.s

(***************************************************************************)
(* JSONExtractor.  `self` is the instance: [extraction_failure_mode |-> m]. *)
(* log_extraction_failures only switches logging and is left out.  The     *)
(* messages are ASCII renderings of the source's Chinese texts.            *)
(***************************************************************************)
\* the markdown fence; a TLA+ string cannot hold a backtick, the texts of the
\* model write the fence character as ~
Fence == "~~~"

\* re.search of the fenced-block pattern, IGNORECASE: the opening fence is the
\* first fence, an optional "json" tag follows it, and the
\* group runs up to the next fence after that.  [open, close] delimit the
\* group; open = 0 when nothing matches
FenceMatch(text) ==
    LET p == FindFrom(text, Fence, 1)
        body == IF lower(Slice(text, p + 3, p + 6)) = "json" THEN p + 7 ELSE p + 3
        q == FindFrom(text, Fence, body)
    IN  IF p = 0 \/ q = 0 THEN [open |-> 0, close |-> 0] ELSE [open |-> body, close |-> q - 1]

_extract_json_from_markdown(text) ==
    LET m == FenceMatch(text) IN
    IF m.open # 0 THEN strip(Slice(text, m.open, m.close)) ELSE strip(text)

\* the parsed value, None when neither the text nor its fenced block parses
_parse_json_safely(text) ==
    LET direct == json_loads(text)
        fenced == json_loads(_extract_json_from_markdown(text))
    IN  IF ~direct.raised THEN direct.value
        ELSE IF ~fenced.raised THEN fenced.value
        ELSE None

RECURSIVE SplitPathLoop(_, _, _, _, _)
\* the for loop of _split_path over path[i..]
SplitPathLoop(path, i, parts, current, in_bracket) ==
    LET char == Char(path, i) IN
    IF i > Len(path) THEN (IF current # "" THEN Append(parts, current) ELSE parts)
    ELSE IF char = "["
         THEN SplitPathLoop(path, i + 1, IF current # "" THEN Append(parts, current) ELSE parts,
                            char, TRUE)
    ELSE IF char = "]"
         THEN SplitPathLoop(path, i + 1, Append(parts, current \o char), "", FALSE)
    ELSE IF char = "." /\ ~in_bracket
         THEN SplitPathLoop(path, i + 1, IF current # "" THEN Append(parts, current) ELSE parts,
                            "", in_bracket)
    ELSE SplitPathLoop(path, i + 1, parts, current \o char, in_bracket)

_split_path(path) == SplitPathLoop(path, 1, <<>>, "", FALSE)

\* current[field] for a str field
GetItemStr(current, field) ==
    IF current.t = "dict"
    THEN (IF IndexOf(current.keys, field, 1) # 0
          THEN Return(current.vals[IndexOf(current.keys, field, 1)])
          ELSE Raise("KeyError", field))
    ELSE IF current.t \in {"list", "str"}
    THEN Raise("TypeError", "indices must be integers")
    ELSE Raise("TypeError", "object is not subscriptable")

\* current[index] for an int index (a negative index counts from the end)
GetItemInt(current, index) ==
    LET n == IF current.t = "list" THEN Len(current.items)
             ELSE IF current.t = "str" THEN Len(current.s) ELSE 0
        at == IF index < 0 THEN index + n + 1 ELSE index + 1
    IN  IF current.t = "dict" THEN Raise("KeyError", ToString(index))
        ELSE IF current.t \notin {"list", "str"}
        THEN Raise("TypeError", "object is not subscriptable")
        ELSE IF at < 1 \/ at > n THEN Raise("IndexError", "index out of range")
        ELSE IF current.t = "list" THEN Return(current.items[at])
        ELSE Return(StrV(Char(current.s, at)))

\* one round of the loop of _extract_by_path; stop is the early return of [*]
WalkPart(current, part) ==
    LET cut == FindFrom(part, "[", 1)
        field == Slice(part, 1, cut - 1)
        index_part == rstrip_chars(Slice(part, cut + 1, Len(part)), "]")
        afterField == IF field # "" THEN GetItemStr(current, field) ELSE Return(current)
        index == int(index_part)
    IN  IF ~endswith(part, "]") THEN [r |-> GetItemStr(current, part), stop |-> FALSE]
        ELSE IF cut = 0
        THEN [r |-> Raise("ValueError", "not enough values to unpack"), stop |-> FALSE]
        ELSE IF afterField.raised THEN [r |-> afterField, stop |-> FALSE]
        ELSE IF index_part = "*"
        THEN (IF afterField.value.t = "list" THEN [r |-> afterField, stop |-> TRUE]
              ELSE [r |-> Raise("ValueError", "[*] on a non-list"), stop |-> FALSE])
        ELSE IF index.raised THEN [r |-> index, stop |-> FALSE]
        ELSE [r |-> GetItemInt(afterField.value, index.value), stop |-> FALSE]

RECURSIVE WalkParts_NoStop(_, _, _)
WalkParts_NoStop(current, parts, i) ==
    LET w == WalkPart(current, parts[i]) IN
    IF i > Len(parts) THEN Return(current)
    ELSE IF w.r.raised THEN w.r
    ELSE WalkParts_NoStop(w.r.value, parts, i + 1)

RECURSIVE WalkParts(_, _, _)
WalkParts(current, parts, i) ==
    LET w == WalkPart(current, parts[i]) IN
    IF i > Len(parts) THEN Return(current)
    ELSE IF w.r.raised \/ w.stop THEN w.r
    ELSE WalkParts(w.r.value, parts, i + 1)

_extract_by_path(data, path) ==
    LET stripped == IF startswith(path, "$.") THEN Slice(path, 3, Len(path))
                    ELSE IF startswith(path, "$") THEN Slice(path, 2, Len(path))
                    ELSE path
    IN  IF path = "$" \/ path = "" THEN Return(data)
        ELSE WalkParts(data, _split_path(stripped), 1)

\* a faulty variant of the failure policy: mode empty is treated as ignore
_handle_extraction_failure_NoEmpty(self, error_msg, original_content) ==
    IF self.extraction_failure_mode = "error" THEN Raise("ValueError", error_msg)
    ELSE Return(original_content)

_handle_extraction_failure(self, error_msg, original_content) ==
    IF self.extraction_failure_mode = "error" THEN Raise("ValueError", error_msg)
    ELSE IF self.extraction_failure_mode = "empty" THEN Return("")
    ELSE Return(original_content)

RECURSIVE BracketLoop(_, _, _)
\* the loop of validate_path over path[i..] and the test that follows it
BracketLoop(path, i, bracket_count) ==
    IF i > Len(path) THEN bracket_count = 0
    ELSE IF Char(path, i) = "[" THEN BracketLoop(path, i + 1, bracket_count + 1)
    ELSE IF Char(path, i) = "]"
         THEN (IF bracket_count - 1 < 0 THEN FALSE ELSE BracketLoop(path, i + 1, bracket_count - 1))
    ELSE BracketLoop(path, i + 1, bracket_count)

\* a faulty variant of validate_path: consecutive dots are let through
validate_path_NoDoubleDot(path) ==
    IF path = "" THEN FALSE
    ELSE IF ~startswith(path, "$") THEN FALSE
    ELSE IF path = "$" THEN TRUE
    ELSE IF Len(path) > 1 /\ Char(path, 2) # "." THEN FALSE
    ELSE BracketLoop(path, 1, 0)

validate_path(path) ==
    IF path = "" THEN FALSE
    ELSE IF ~startswith(path, "$") THEN FALSE
    ELSE IF contains(path, "..") THEN FALSE
    ELSE IF path = "$" THEN TRUE
    ELSE IF Len(path) > 1 /\ Char(path, 2) # "." THEN FALSE
    ELSE BracketLoop(path, 1, 0)

\* a faulty variant of the detection: a marker that opens the path is not seen
_has_nested_extraction_AfterStart(path) == FindFrom(path, ".$", 2) # 0

_has_nested_extraction(path) == contains(path, ".$")

RECURSIVE SkipNonBrace(_, _)
SkipNonBrace(text, i) ==
    IF Char(text, i) \notin {"", "{", "}"} THEN SkipNonBrace(text, i + 1) ELSE i

RECURSIVE BraceGroups(_, _)
\* the tail of the brace pattern from position j: any number of inner
\* brace pairs free of braces, each followed by brace-free text, then the
\* closing brace; the position of that brace, 0 when there is no match
BraceGroups(text, j) ==
    LET k == SkipNonBrace(text, j + 1) IN
    IF Char(text, j) = "}" THEN j
    ELSE IF Char(text, j) = "{" /\ Char(text, k) = "}"
         THEN BraceGroups(text, SkipNonBrace(text, k + 1))
    ELSE 0

\* a match of json_pattern (an object with at most one inner level of
\* braces) starting at i: its last position, 0 when there is none
BraceMatch(text, i) ==
    IF Char(text, i) = "{" THEN BraceGroups(text, SkipNonBrace(text, i + 1)) ELSE 0

RECURSIVE FirstJsonObject(_, _)
\* re.findall(json_pattern, text) followed by the loop that returns the first
\* match json.loads accepts; "" when no match parses
FirstJsonObject(text, i) ==
    LET e == BraceMatch(text, i) IN
    IF i > Len(text) THEN ""
    ELSE IF e = 0 THEN FirstJsonObject(text, i + 1)
    ELSE IF ~json_loads(Slice(text, i, e)).raised THEN Slice(text, i, e)
    ELSE FirstJsonObject(text, e + 1)

_extract_json_string_from_text(text) ==
    LET json_from_markdown == _extract_json_from_markdown(text)
        found == FirstJsonObject(text, 1)
    IN  IF ~json_loads(text).raised THEN text
        ELSE IF json_from_markdown # strip(text) /\ ~json_loads(json_from_markdown).raised
        THEN json_from_markdown
        ELSE IF found # "" THEN found
        ELSE text

\* a faulty variant of the test that opens extract: only the empty path counts
IsRootPath_OnlyEmpty(extract_path) == extract_path = ""

\* the test that opens extract: the path is empty or "$"
IsRootPath(extract_path) == extract_path = "" \/ extract_path = "$"

\* a faulty variant of the split: the remainder keeps the "$" of the marker
NestedSplit_KeepsDollar(extract_path) ==
    LET nested_pos == find(extract_path, ".$") IN
    [nested_pos |-> nested_pos,
     first_path |-> Slice(extract_path, 1, nested_pos),
     remaining_path |-> Slice(extract_path, nested_pos + 2, Len(extract_path))]

\* a faulty variant of the split: at the second ".$" when there is one
NestedSplit_AtSecondMarker(extract_path) ==
    LET first == find(extract_path, ".$")
        second == FindFrom(extract_path, ".$", first + 3)
        nested_pos == IF first = -1 \/ second = 0 THEN first ELSE second - 1
    IN  [nested_pos |-> nested_pos,
         first_path |-> Slice(extract_path, 1, nested_pos),
         remaining_path |-> Slice(extract_path, nested_pos + 3, Len(extract_path))]

\* the split of _extract_nested_json at the first ".$" (nested_pos 0-based)
NestedSplit(extract_path) ==
    LET nested_pos == find(extract_path, ".$") IN
    [nested_pos |-> nested_pos,
     first_path |-> Slice(extract_path, 1, nested_pos),
     remaining_path |-> Slice(extract_path, nested_pos + 3, Len(extract_path))]

RECURSIVE extract(_, _, _)
RECURSIVE _extract_nested_json(_, _, _)

_extract_nested_json(self, content, extract_path) ==
    LET failed(e) == _handle_extraction_failure(
                         self, "nested extract path " \o extract_path \o " failed: " \o e, content)
    IN  Let(NestedSplit(extract_path), LAMBDA parts :
        IF parts.nested_pos = -1 THEN extract(self, content, extract_path)
        ELSE Let(IF parts.first_path = "" THEN Return(content)
                 ELSE extract(self, content, parts.first_path), LAMBDA intermediate_content :
             IF intermediate_content.raised THEN failed(intermediate_content.msg)
             ELSE Let(_extract_json_string_from_text(intermediate_content.value), LAMBDA json_content :
                  IF parts.remaining_path = "" \/ parts.remaining_path = "$" THEN Return(json_content)
                  ELSE Let(extract(self, json_content, "$" \o parts.remaining_path), LAMBDA inner :
                       IF inner.raised THEN failed(inner.msg) ELSE inner))))

extract(self, content, extract_path) ==
    LET failed(e) == _handle_extraction_failure(
                         self, "extract path " \o extract_path \o " failed: " \o e, content)
    IN  IF IsRootPath(extract_path) THEN Return(content)
        ELSE IF _has_nested_extraction(extract_path)
        THEN _extract_nested_json(self, content, extract_path)
        ELSE Let(_parse_json_safely(content), LAMBDA json_data :
             IF json_data = None
             THEN Let(_handle_extraction_failure(self, "cannot parse JSON content", content),
                      LAMBDA unparsed : IF unparsed.raised THEN failed(unparsed.msg) ELSE unparsed)
             ELSE Let(_extract_by_path(json_data, extract_path), LAMBDA extracted_data :
                  IF extracted_data.raised THEN failed(extracted_data.msg)
                  ELSE IF extracted_data.value.t \in {"dict", "list"}
                  THEN Return(json_dumps(extracted_data.value))
                  ELSE Return(str(extracted_data.value))))

RECURSIVE NestingLevels(_)
\* the number of calls of _extract_nested_json that extract makes for a path
\* when no stage fails: one for the path, those of the recursive call for the
\* part before the marker and those of the recursive call for "$" + remainder
NestingLevels(extract_path) ==
    IF IsRootPath(extract_path) \/ ~_has_nested_extraction(extract_path) THEN 0
    ELSE Let(NestedSplit(extract_path), LAMBDA parts :
         1 + (IF parts.first_path = "" THEN 0 ELSE NestingLevels(parts.first_path))
           + (IF parts.remaining_path = "" \/ parts.remaining_path = "$" THEN 0
              ELSE NestingLevels("$" \o parts.remaining_path)))

(***************************************************************************)
(* TextComparator.  `self` is the instance:                                *)
(*   [fuzzy_threshold, ignore_case, ignore_whitespace, json_extractor,     *)
(*    llm_client]                                                          *)
(* with llm_client = None when no judge is configured.  Scores are held in *)
(* hundredths: similarity_score = 100 stands for 1.0, fuzzy_threshold = 80 *)
(* for 0.8.  A ComparisonResult is the record of its eight fields; the     *)
(* optional ones hold None or a value.                                     *)
(* The message literals of the source are written in English.              *)
(***************************************************************************)
ComparisonType == {"EXACT", "FUZZY", "CONTAINS", "JSON", "LLM", "CUSTOM"}

\* the score 1.0, in hundredths
FullScore == 100

ComparisonResult(is_match, similarity_score, comparison_type, expected, actual, diff, details, error_message) ==
    [is_match |-> is_match, similarity_score |-> similarity_score,
     comparison_type |-> comparison_type, expected |-> expected, actual |-> actual,
     diff |-> diff, details |-> details, error_message |-> error_message]

RECURSIVE DictUpdate(_, _, _)
\* d.update({keys[i]: vals[i]})
DictUpdate(d, keys, vals) ==
    IF keys = <<>> THEN d
    ELSE DictUpdate(DictSet(d, Head(keys), Head(vals)), Tail(keys), Tail(vals))

HasKey(d, k) == IndexOf(d.keys, k, 1) # 0

\* d.get(k, default)
DictGet(d, k, default) == IF HasKey(d, k) THEN d.vals[IndexOf(d.keys, k, 1)] ELSE default

_normalize_text(self, text) ==
    LET cased == IF self.ignore_case THEN lower(text) ELSE text
    IN  IF self.ignore_whitespace THEN join(" ", split(cased)) ELSE cased

RECURSIVE PrefixLines(_, _)
PrefixLines(sign, lines) ==
    IF lines = <<>> THEN "" ELSE "\n" \o sign \o Head(lines) \o PrefixLines(sign, Tail(lines))

\* '\n'.join(difflib.unified_diff(a, b, fromfile, tofile, lineterm='')): empty
\* when the two line lists are equal; otherwise the two header lines and the
\* hunks, written here as one hunk that replaces all of a by all of b
unified_diff(a, b, fromfile, tofile) ==
    IF a = b THEN ""
    ELSE "--- " \o fromfile \o "\n+++ " \o tofile \o "\n@@" \o PrefixLines("-", a)
         \o PrefixLines("+", b)

\* the diff of two normalized texts
TextDiff(expected_norm, actual_norm) ==
    Let(splitlines(expected_norm), LAMBDA a :
    Let(splitlines(actual_norm), LAMBDA b : StrV(unified_diff(a, b, "expected", "actual"))))

\* a faulty variant of exact_match: the texts are compared as they are
exact_match_Raw(self, expected, actual) ==
    ComparisonResult(expected = actual, IF expected = actual THEN FullScore ELSE 0, "EXACT",
        expected, actual,
        IF expected = actual THEN None
        ELSE TextDiff(_normalize_text(self, expected), _normalize_text(self, actual)),
        None, None)

exact_match(self, expected, actual) ==
    Let(_normalize_text(self, expected), LAMBDA expected_norm :
    Let(_normalize_text(self, actual), LAMBDA actual_norm :
    Let(expected_norm = actual_norm, LAMBDA is_match :
        ComparisonResult(is_match, IF is_match THEN FullScore ELSE 0, "EXACT", expected, actual,
            IF is_match THEN None ELSE TextDiff(expected_norm, actual_norm),
            None, None))))

\* the letters and digits fuzzywuzzy keeps when it processes a string
Alnum == UpperChars \o LowerChars \o DigitChars

RECURSIVE HasAlnum(_)
HasAlnum(s) == s # "" /\ (contains(Alnum, Head(s)) \/ HasAlnum(Tail(s)))

\* the four scores (0..100) of fuzzywuzzy for s1 and s2.  The library is not
\* part of the repository: equal strings score 100 (token_set_ratio 0 when
\* nothing is left of them after processing), an empty string scores 0
\* against any other string, other unequal strings score what oracle says
fuzz(oracle, s1, s2) ==
    IF s1 = s2
    THEN [ratio |-> 100, partial_ratio |-> 100, token_sort_ratio |-> 100,
          token_set_ratio |-> IF HasAlnum(s1) THEN 100 ELSE 0]
    ELSE IF s1 = "" \/ s2 = ""
    THEN [ratio |-> 0, partial_ratio |-> 0, token_sort_ratio |-> 0, token_set_ratio |-> 0]
    ELSE oracle

fuzzy_match_RatioOnly(self, expected, actual, oracle) ==
    Let(_normalize_text(self, expected), LAMBDA expected_norm :
    Let(_normalize_text(self, actual), LAMBDA actual_norm :
    Let(fuzz(oracle, expected_norm, actual_norm), LAMBDA scores :
    Let(scores.ratio, LAMBDA similarity_score :
    Let(similarity_score >= self.fuzzy_threshold, LAMBDA is_match :
        ComparisonResult(is_match, similarity_score, "FUZZY", expected, actual,
            IF is_match THEN None ELSE TextDiff(expected_norm, actual_norm),
            DictV(<<"ratio", "partial_ratio", "token_sort_ratio", "token_set_ratio", "threshold">>,
                  <<IntV(scores.ratio), IntV(scores.partial_ratio), IntV(scores.token_sort_ratio),
                    IntV(scores.token_set_ratio), IntV(self.fuzzy_threshold)>>),
            None))))))

fuzzy_match(self, expected, actual, oracle) ==
    Let(_normalize_text(self, expected), LAMBDA expected_norm :
    Let(_normalize_text(self, actual), LAMBDA actual_norm :
    Let(fuzz(oracle, expected_norm, actual_norm), LAMBDA scores :
    Let(Max(Max(scores.ratio, scores.partial_ratio),
            Max(scores.token_sort_ratio, scores.token_set_ratio)), LAMBDA similarity_score :
    Let(similarity_score >= self.fuzzy_threshold, LAMBDA is_match :
        ComparisonResult(is_match, similarity_score, "FUZZY", expected, actual,
            IF is_match THEN None ELSE TextDiff(expected_norm, actual_norm),
            DictV(<<"ratio", "partial_ratio", "token_sort_ratio", "token_set_ratio", "threshold">>,
                  <<IntV(scores.ratio), IntV(scores.partial_ratio), IntV(scores.token_sort_ratio),
                    IntV(scores.token_set_ratio), IntV(self.fuzzy_threshold)>>),
            None))))))

contains_match(self, expected, actual) ==
    Let(_normalize_text(self, expected), LAMBDA expected_norm :
    Let(_normalize_text(self, actual), LAMBDA actual_norm :
    Let(contains(actual_norm, expected_norm), LAMBDA is_match :
        ComparisonResult(is_match, IF is_match THEN FullScore ELSE 0, "CONTAINS", expected, actual,
            None,
            DictV(<<"contains_check">>, <<StrV(expected_norm \o " in " \o actual_norm)>>),
            None))))

RECURSIVE PyEq(_, _)
\* a == b on parsed JSON: dicts compare as mappings, lists in order, and a
\* bool equals the int 1 or 0
PyEq(a, b) ==
    LET num(v) == IF v.t = "int" THEN v.n ELSE IF v.b THEN 1 ELSE 0 IN
    IF a.t \in {"int", "bool"} /\ b.t \in {"int", "bool"} THEN num(a) = num(b)
    ELSE IF a.t # b.t THEN FALSE
    ELSE IF a.t = "null" THEN TRUE
    ELSE IF a.t = "str" THEN a.s = b.s
    ELSE IF a.t = "list"
         THEN Len(a.items) = Len(b.items)
              /\ \A i \in 1..Len(a.items) : PyEq(a.items[i], b.items[i])
    ELSE Len(a.keys) = Len(b.keys)
         /\ \A i \in 1..Len(a.keys) :
                HasKey(b, a.keys[i]) /\ PyEq(a.vals[i], DictGet(b, a.keys[i], None))

\* the printable ASCII characters in code-point order (the backtick left out)
Ascii == " !\"#$%&'()*+,-./0123456789:;<=>?@ABCDEFGHIJKLMNOPQRSTUVWXYZ[\\]^_abcdefghijklmnopqrstuvwxyz{|}~"

RECURSIVE StrLess(_, _)
\* a < b on str
StrLess(a, b) ==
    IF b = "" THEN FALSE
    ELSE IF a = "" THEN TRUE
    ELSE IF Head(a) = Head(b) THEN StrLess(Tail(a), Tail(b))
    ELSE FindFrom(Ascii, Head(a), 1) < FindFrom(Ascii, Head(b), 1)

RECURSIVE SortedInsert(_, _)
SortedInsert(keys, k) ==
    IF keys = <<>> THEN <<k>>
    ELSE IF StrLess(k, Head(keys)) THEN <<k>> \o keys
    ELSE <<Head(keys)>> \o SortedInsert(Tail(keys), k)

RECURSIVE SortKeys(_)
SortKeys(keys) == IF keys = <<>> THEN <<>> ELSE SortedInsert(SortKeys(Tail(keys)), Head(keys))

RECURSIVE Spaces(_)
Spaces(n) == IF n <= 0 THEN "" ELSE " " \o Spaces(n - 1)

RECURSIVE json_dumps_indent(_, _, _)
RECURSIVE DumpItemsIndent(_, _, _, _)
RECURSIVE DumpMembersIndent(_, _, _, _, _)

DumpItemsIndent(items, i, level, sort_keys) ==
    IF i > Len(items) THEN ""
    ELSE (IF i > 1 THEN "," ELSE "") \o "\n" \o Spaces(2 * level)
         \o json_dumps_indent(items[i], level, sort_keys)
         \o DumpItemsIndent(items, i + 1, level, sort_keys)

DumpMembersIndent(d, keys, i, level, sort_keys) ==
    IF i > Len(keys) THEN ""
    ELSE (IF i > 1 THEN "," ELSE "") \o "\n" \o Spaces(2 * level)
         \o "\"" \o EscapeStr(keys[i]) \o "\": "
         \o json_dumps_indent(DictGet(d, keys[i], None), level, sort_keys)
         \o DumpMembersIndent(d, keys, i + 1, level, sort_keys)

\* json.dumps(v, indent=2, ensure_ascii=False, sort_keys=sort_keys) of a value
\* nested `level` deep
json_dumps_indent(v, level, sort_keys) ==
    IF v.t = "list" /\ v.items # <<>>
    THEN "[" \o DumpItemsIndent(v.items, 1, level + 1, sort_keys) \o "\n" \o Spaces(2 * level) \o "]"
    ELSE IF v.t = "dict" /\ v.keys # <<>>
    THEN "{" \o DumpMembersIndent(v, IF sort_keys THEN SortKeys(v.keys) ELSE v.keys, 1,
                                  level + 1, sort_keys)
         \o "\n" \o Spaces(2 * level) \o "}"
    ELSE json_dumps(v)

json_match(self, expected, actual) ==
    LET failed(e) == ComparisonResult(FALSE, 0, "JSON", expected, actual, None, None,
                                      StrV("JSON parse error: " \o e))
    IN  Let(json_loads(expected), LAMBDA expected_json :
        IF expected_json.raised THEN failed(expected_json.msg)
        ELSE Let(json_loads(_extract_json_from_markdown(actual)), LAMBDA actual_json :
             IF actual_json.raised THEN failed(actual_json.msg)
             ELSE Let(PyEq(expected_json.value, actual_json.value), LAMBDA is_match :
                  ComparisonResult(is_match, IF is_match THEN FullScore ELSE 0, "JSON",
                      expected, actual,
                      IF is_match THEN None
                      ELSE Let(splitlines(json_dumps_indent(expected_json.value, 0, FALSE)),
                           LAMBDA a :
                           Let(splitlines(json_dumps_indent(actual_json.value, 0, FALSE)),
                           LAMBDA b :
                               StrV(unified_diff(a, b, "expected.json", "actual.json")))),
                      None, None))))

\* float(v) of a parsed JSON value, in units (the str and int literals of the
\* model hold integers)
float(v) ==
    IF v.t = "int" THEN Return(v.n)
    ELSE IF v.t = "bool" THEN Return(IF v.b THEN 1 ELSE 0)
    ELSE IF v.t = "str"
    THEN Let(int(strip(v.s)), LAMBDA n :
             IF n.raised THEN Raise("ValueError", "could not convert string to float: " \o v.s)
             ELSE n)
    ELSE Raise("TypeError", "float() argument must be a string or a real number")

\* a faulty variant of the decision: the opinion of the judge is followed
llm_is_match_TrustsJudge(self, similarity_score, llm_result) ==
    IF HasKey(llm_result, "is_match") /\ DictGet(llm_result, "is_match", None).t = "bool"
    THEN DictGet(llm_result, "is_match", None).b
    ELSE similarity_score >= self.fuzzy_threshold

\* is_match of llm_match: the score against the threshold of the comparator,
\* whatever else the reply llm_result of the judge holds
llm_is_match(self, similarity_score, llm_result) == similarity_score >= self.fuzzy_threshold

\* judge is what self.llm_client.generate(prompt) does: it raises
\* ([raises |-> TRUE, msg]) or returns an LLMResponse
\* ([raises |-> FALSE, error, content, model])
llm_match(self, expected, actual, judge) ==
    LET failed(msg) == ComparisonResult(FALSE, 0, "LLM", expected, actual, None, None, StrV(msg))
        unparsed(e) == failed("LLM response parse error: " \o e \o ", raw response: "
                              \o judge.content)
    IN  IF self.llm_client = None THEN failed("LLM client not configured")
        ELSE IF judge.raises THEN failed(judge.msg)
        ELSE IF judge.error \notin {None, StrV("")} THEN failed("LLM call error: " \o judge.error.s)
        ELSE Let(json_loads(_extract_json_from_markdown(judge.content)), LAMBDA llm_result :
             IF llm_result.raised THEN unparsed(llm_result.msg)
             \* .get on a value that is no dict: AttributeError, the outer handler
             ELSE IF llm_result.value.t # "dict" THEN failed("object has no attribute get")
             ELSE Let(DictGet(llm_result.value, "similarity_score", IntV(0)), LAMBDA raw :
                  Let(float(raw), LAMBDA similarity_score :
                  IF similarity_score.raised /\ similarity_score.exc = "ValueError"
                  THEN unparsed(similarity_score.msg)
                  ELSE IF similarity_score.raised THEN failed(similarity_score.msg)
                  ELSE ComparisonResult(llm_is_match(self, similarity_score.value, llm_result.value),
                           similarity_score.value, "LLM", expected, actual, None,
                           DictV(<<"llm_model", "llm_reasoning", "llm_raw_score",
                                   "llm_response_time", "threshold">>,
                                 <<StrV(judge.model),
                                   DictGet(llm_result.value, "reasoning", StrV("")), raw,
                                   IntV(0), IntV(self.fuzzy_threshold)>>),
                           None))))

\* a faulty variant of the conversion of an exception: the message is lost
CaughtResult_NoMessage(comparison_type, expected, actual, e) ==
    ComparisonResult(FALSE, 0, comparison_type, expected, actual, None, None, None)

\* the result compare builds from an exception it caught
CaughtResult(comparison_type, expected, actual, e) ==
    ComparisonResult(FALSE, 0, comparison_type, expected, actual, None, None, StrV(e))

\* details with the entries of keys set, starting from {} when there are none
DetailsUpdate(result, keys, vals) ==
    [result EXCEPT !.details =
        DictUpdate(IF result.details = None THEN DictV(<<>>, <<>>) ELSE result.details,
                   keys, vals)]

\* a faulty variant of the bookkeeping: the original texts are left out
WithExtractionDetails_NoOriginals(result, expected_extract_path, actual_extract_path, extracted_expected, extracted_actual, expected, actual) ==
    DetailsUpdate(result,
        <<"expected_extract_path", "actual_extract_path", "extracted_expected",
          "extracted_actual">>,
        <<StrV(expected_extract_path), StrV(actual_extract_path), StrV(extracted_expected),
          StrV(extracted_actual)>>)

\* the extraction bookkeeping compare adds to the details of a result
WithExtractionDetails(result, expected_extract_path, actual_extract_path, extracted_expected, extracted_actual, expected, actual) ==
    DetailsUpdate(result,
        <<"expected_extract_path", "actual_extract_path", "extracted_expected",
          "extracted_actual", "original_expected", "original_actual">>,
        <<StrV(expected_extract_path), StrV(actual_extract_path), StrV(extracted_expected),
          StrV(extracted_actual), StrV(expected), StrV(actual)>>)

\* the mode function compare calls for a supported comparison type
\* a faulty variant of the dispatch: LLM is served by the exact comparison
Dispatch_LLMAsExact(self, e, a, comparison_type, env) ==
    CASE comparison_type \in {"EXACT", "LLM"} -> exact_match(self, e, a)
      [] comparison_type = "FUZZY" -> fuzzy_match(self, e, a, env.fuzz)
      [] comparison_type = "CONTAINS" -> contains_match(self, e, a)
      [] comparison_type = "JSON" -> json_match(self, e, a)

Dispatch(self, e, a, comparison_type, env) ==
    CASE comparison_type = "EXACT" -> exact_match(self, e, a)
      [] comparison_type = "FUZZY" -> fuzzy_match(self, e, a, env.fuzz)
      [] comparison_type = "CONTAINS" -> contains_match(self, e, a)
      [] comparison_type = "JSON" -> json_match(self, e, a)
      [] comparison_type = "LLM" -> llm_match(self, e, a, env.judge)

\* env holds what the collaborators of this call return: env.fuzz for
\* fuzzywuzzy, env.judge for the llm_client
compare(self, expected, actual, comparison_type, expected_extract_path, actual_extract_path, env) ==
    Let(extract(self.json_extractor, expected, expected_extract_path), LAMBDA extracted_expected :
    IF extracted_expected.raised
    THEN CaughtResult(comparison_type, expected, actual, extracted_expected.msg)
    ELSE Let(extract(self.json_extractor, actual, actual_extract_path), LAMBDA extracted_actual :
         IF extracted_actual.raised
         THEN CaughtResult(comparison_type, expected, actual, extracted_actual.msg)
         ELSE IF comparison_type \notin {"EXACT", "FUZZY", "CONTAINS", "JSON", "LLM"}
         THEN CaughtResult(comparison_type, expected, actual,
                           "unsupported comparison type: " \o comparison_type)
         ELSE WithExtractionDetails(
                  Dispatch(self, extracted_expected.value, extracted_actual.value,
                           comparison_type, env),
                  expected_extract_path, actual_extract_path,
                  extracted_expected.value, extracted_actual.value, expected, actual)))

RECURSIVE BatchLoop_DropsFailed(_, _, _, _, _)
BatchLoop_DropsFailed(self, test_results, comparison_type, envs, i) ==
    IF i > Len(test_results) THEN <<>>
    ELSE Let(compare(self, DictGet(test_results[i], "expected", StrV("")).s,
                     DictGet(test_results[i], "actual", StrV("")).s,
                     comparison_type, "$", "$", envs[i]), LAMBDA comparison_result :
         (IF comparison_result.error_message # None THEN <<>>
          ELSE <<DetailsUpdate(comparison_result, <<"test_index", "test_id">>,
                     <<IntV(i - 1),
                       DictGet(test_results[i], "id", StrV("test_" \o ToString(i - 1)))>>)>>)
         \o BatchLoop_DropsFailed(self, test_results, comparison_type, envs, i + 1))

RECURSIVE BatchLoop(_, _, _, _, _)
\* the loop of compare_batch from item i on (1-based here, test_index 0-based)
BatchLoop(self, test_results, comparison_type, envs, i) ==
    IF i > Len(test_results) THEN <<>>
    ELSE <<DetailsUpdate(
               compare(self, DictGet(test_results[i], "expected", StrV("")).s,
                       DictGet(test_results[i], "actual", StrV("")).s,
                       comparison_type, "$", "$", envs[i]),
               <<"test_index", "test_id">>,
               <<IntV(i - 1),
                 DictGet(test_results[i], "id", StrV("test_" \o ToString(i - 1)))>>)>>
         \o BatchLoop(self, test_results, comparison_type, envs, i + 1)

\* envs[i] holds what the collaborators return during the i-th comparison
compare_batch(self, test_results, comparison_type, envs) ==
    BatchLoop(self, test_results, comparison_type, envs, 1)

\* metadata.get(key, '$') of a test case, "$" without metadata
ExtractPathOf(metadata, key) ==
    IF metadata = None \/ metadata.keys = <<>> THEN "$" ELSE DictGet(metadata, key, StrV("$")).s

\* LLMTester.run_single_test.  generated is what self.llm_client.generate
\* does: it raises ([raises |-> TRUE, msg]) or returns an LLMResponse
LLMTester_run_single_test(self, test_case, comparison_type, generated, env) ==
    IF generated.raises
    THEN [test_case |-> test_case,
          llm_response |-> [content |-> "", model |-> generated.model,
                            error |-> StrV(generated.msg)],
          comparison_result |->
              ComparisonResult(FALSE, 0, comparison_type, test_case.expected, "", None, None,
                               StrV(generated.msg))]
    ELSE [test_case |-> test_case,
          llm_response |-> [content |-> generated.content, model |-> generated.model,
                            error |-> generated.error],
          comparison_result |->
              compare(self, test_case.expected, generated.content, comparison_type,
                      ExtractPathOf(test_case.metadata, "expected_extract_path"),
                      ExtractPathOf(test_case.metadata, "actual_extract_path"), env)]

\* HTTPTester(...) with its default
default_expected_status == 200

\* the text of a response that is compared
_extract_response_content(http_response, test_case) ==
    IF http_response.error \notin {None, StrV("")}
    THEN "ERROR: " \o http_response.error.s
    ELSE Let(strip(http_response.content), LAMBDA stripped :
         IF ~(startswith(stripped, "{") \/ startswith(stripped, "["))
         THEN http_response.content
         ELSE Let(json_loads(http_response.content), LAMBDA parsed_json :
              IF parsed_json.raised \/ json_loads(test_case.expected).raised
              THEN http_response.content
              ELSE json_dumps_indent(parsed_json.value, 0, TRUE)))

\* a faulty variant of the verdict: one of the two matches is enough
overall_match_Either(status_code_match, is_match) == status_code_match \/ is_match

\* the verdict of an HTTP test: the status code and the content both match
overall_match(status_code_match, is_match) == status_code_match /\ is_match

\* HTTPTester.run_single_test.  requested is what self.http_client.request
\* does: it raises ([raises |-> TRUE, msg]) or returns an HTTPResponse
HTTPTester_run_single_test(self, test_case, comparison_type, requested, env) ==
    IF requested.raises
    THEN [test_case |-> test_case,
          http_response |-> [status_code |-> 0, content |-> "", error |-> StrV(requested.msg)],
          comparison_result |->
              ComparisonResult(FALSE, 0, comparison_type, test_case.expected, "", None, None,
                               StrV(requested.msg)),
          status_code_match |-> FALSE]
    ELSE Let(IF test_case.expected_status_code \in {None, IntV(0)}
             THEN default_expected_status
             ELSE test_case.expected_status_code.n, LAMBDA expected_status :
         Let(requested.status_code = expected_status, LAMBDA status_code_match :
         Let(compare(self, test_case.expected, _extract_response_content(requested, test_case),
                     comparison_type,
                     ExtractPathOf(test_case.metadata, "expected_extract_path"),
                     ExtractPathOf(test_case.metadata, "actual_extract_path"), env),
             LAMBDA comparison_result :
             [test_case |-> test_case,
              http_response |-> [status_code |-> requested.status_code,
                                 content |-> requested.content, error |-> requested.error],
              comparison_result |->
                  DetailsUpdate(
                      [comparison_result EXCEPT
                          !.is_match = overall_match(status_code_match, @)],
                      <<"status_code_match", "expected_status_code", "actual_status_code">>,
                      <<BoolV(status_code_match), IntV(expected_status),
                        IntV(requested.status_code)>>),
              status_code_match |-> status_code_match])))

(***************************************************************************)
(* Config (config/settings.py).  config_data is a DictV of DictVs; only    *)
(* the section "http" is kept.                                             *)
(***************************************************************************)
\* Config._get_default_config: the configuration without a config.yaml
_get_default_config ==
    DictV(<<"http">>,
          <<DictV(<<"timeout", "retry_count", "retry_delay">>, <<IntV(30), IntV(3), IntV(1)>>)>>)

RECURSIVE Config_get(_, _, _)
\* Config.get(key, default) on config_data; keys is key.split('.')
Config_get(value, keys, default) ==
    IF keys = <<>> THEN value
    ELSE IF value.t = "dict" /\ HasKey(value, Head(keys))
    THEN Config_get(DictGet(value, Head(keys), None), Tail(keys), default)
    ELSE default

(***************************************************************************)
(* State.  json_extractor and comparator are the two instances, created    *)
(* once and shared; call is the pending call with its arguments, ret what  *)
(* it returned or raised, answers what the collaborators of the call (the  *)
(* fuzzy scorer, the judge, the system under test) answered during it.     *)
(* local holds the local variables of an operation that runs in several    *)
(* steps (the retry loop, the worker threads), config the config_data of   *)
(* the process-wide Config instance.                                       *)
(***************************************************************************)
VARIABLES json_extractor, comparator, pc, call, ret, answers, local, config

vars == <<json_extractor, comparator, pc, call, ret, answers, local, config>>

FailureModes == {"ignore", "error", "empty"}

\* TextComparator() with its defaults
DefaultComparator ==
    [fuzzy_threshold |-> 80, ignore_case |-> TRUE, ignore_whitespace |-> TRUE, llm_client |-> None]

\* the comparator instance with the extractor it holds
Self == [fuzzy_threshold |-> comparator.fuzzy_threshold, ignore_case |-> comparator.ignore_case,
         ignore_whitespace |-> comparator.ignore_whitespace,
         llm_client |-> comparator.llm_client, json_extractor |-> json_extractor]

(***************************************************************************)
(* The texts and paths extract is called with.                             *)
(***************************************************************************)
Contents ==
    { "{\"a\":1,\"m\":{\"a\":2}}",
      "{\"a\":null,\"m\":true}",
      "{\"a\":false,\"m\":\"x y\"}",
      "{\"a\":-3,\"m\":[]}",
      "{\"m\":\"{\\\"a\\\":\\\"z\\\",\\\"m\\\":5}\"}",
      "{\"m\":\"t ~~~json\\n{\\\"a\\\":1}\\n~~~ e\"}",
      "~~~json\n{\"a\":\"y\"}\n~~~",
      "not json",
      "{\"a\":[1,\"s\",[2]],\"m\":\"pq\"}",
      "[{\"a\":1},{\"m\":\"{}\"}]",
      "{\"m\":\"{\\\"m\\\":\\\"{\\\\\\\"a\\\\\\\":\\\\\\\"ok\\\\\\\"}\\\"}\"}",
      "{\"m\":\"pre {\\\"a\\\":1} post\"}",
      "null",
      "",
      "{\"a\":1" }

PathSegments == {".a", ".m", ".x", "[0]", "[*]", ".$"}

\* the longest path drawn from PathSegments, in segments
MaxPathSegments == 2

RECURSIVE PathBodies(_)
PathBodies(n) ==
    IF n = 0 THEN {""} ELSE {b \o seg : b \in PathBodies(n - 1), seg \in PathSegments}

\* longer paths: into embedded JSON, through two levels of it, past a wildcard
DeepPaths ==
    { "$.m.$.a", "$.m.$.m", "$.m.$.x", "$.x.$.a", "$.x.$.x", "$.m.$[0]", "$.$.a", "$.m.$.$",
      "$.m.a.x", "$.a[0].x", "$.a[*].x", "$.a[2][0]", "$[1].m.$", "$[1].m.$.a",
      "$.m.$.m.$", "$.m.$.m.$.a", "$.m.$.m.$.x", "$.m.$.x.$.a", ".$", ".$.a", ".$.m.$.a",
      "$.a[-1]", "$.a[1]", "$.a[5]", "$.a[x]", "$.m[-2]", "$.a[2][-1]" }

Paths ==
    {""} \cup DeepPaths \cup {"$" \o b : b \in UNION {PathBodies(n) : n \in 0..MaxPathSegments}}

\* the characters the paths handed to validate_path are made of
PathChars == {"$", ".", "[", "]", "a"}

\* the longest path made of PathChars, in characters
MaxValidateLen == 4

RECURSIVE PathStrings(_)
PathStrings(n) ==
    IF n = 0 THEN {""} ELSE {p \o c : p \in PathStrings(n - 1), c \in PathChars}

ValidatePaths ==
    Paths \cup UNION {PathStrings(n) : n \in 0..MaxValidateLen}
          \cup {"$.name", "$.score.Chinese", "$.hobbies[0]", "$.hobbies[*]", "name", ".name",
                "$name", "$.a[0][1]", "$.a[[0]]", "$.a]0[", "$.a[0].b[", "$.a.b..c"}

InitExtract ==
    /\ json_extractor \in [extraction_failure_mode : FailureModes]
    /\ comparator = DefaultComparator
    /\ \/ call \in [op : {"extract"}, content : Contents, extract_path : Paths]
       \/ call \in [op : {"validate_path"}, path : ValidatePaths]
    /\ pc = "call"
    /\ ret = None
    /\ answers = None
    /\ local = None
    /\ config = _get_default_config

\* JSONExtractor.extract(content, extract_path)
Extract ==
    /\ pc = "call"
    /\ call.op = "extract"
    /\ ret' = extract(json_extractor, call.content, call.extract_path)
    /\ pc' = "done"
    /\ UNCHANGED <<json_extractor, comparator, call, answers, local, config>>

\* JSONExtractor.validate_path(path)
ValidatePath ==
    /\ pc = "call"
    /\ call.op = "validate_path"
    /\ ret' = Return(validate_path(call.path))
    /\ pc' = "done"
    /\ UNCHANGED <<json_extractor, comparator, call, answers, local, config>>

NextExtract == Extract \/ ValidatePath

SpecExtract == InitExtract /\ [][NextExtract]_vars

(***************************************************************************)
(* The calls of compare, compare_batch and the two testers, and what the   *)
(* collaborators of a call (fuzzywuzzy, the judging LLM, the LLM and the   *)
(* HTTP endpoint under test) may answer.                                   *)
(***************************************************************************)
Comparators ==
    { DefaultComparator,
      [DefaultComparator EXCEPT !.llm_client = StrV("judge")],
      [fuzzy_threshold |-> 50, ignore_case |-> FALSE, ignore_whitespace |-> FALSE,
       llm_client |-> StrV("judge")] }

CompareTexts ==
    { "bye", "Good  Bye",
      "{\"a\":1,\"m\":{\"a\":2}}",
      "{\"m\":{\"a\":2},\"a\":1}",
      "~~~json\n{\"a\":1}\n~~~" }

ExpectedPaths == {"$", "$.a"}

ActualPaths == {"$", "$.a", "$.x"}

\* scores of unequal strings
FuzzOracles ==
    { [ratio |-> 0, partial_ratio |-> 0, token_sort_ratio |-> 0, token_set_ratio |-> 0],
      [ratio |-> 45, partial_ratio |-> 60, token_sort_ratio |-> 45, token_set_ratio |-> 50],
      [ratio |-> 70, partial_ratio |-> 79, token_sort_ratio |-> 72, token_set_ratio |-> 80],
      [ratio |-> 91, partial_ratio |-> 100, token_sort_ratio |-> 91, token_set_ratio |-> 100] }

Replied(content) ==
    [raises |-> FALSE, msg |-> "", error |-> None, content |-> content, model |-> "judge"]

\* what the judging LLM does with the prompt of llm_match
JudgeOutcomes ==
    { [raises |-> TRUE, msg |-> "timeout", error |-> None, content |-> "", model |-> "judge"],
      [raises |-> FALSE, msg |-> "", error |-> StrV("rate limit"), content |-> "",
       model |-> "judge"] }
    \cup { Replied(c) : c \in
             { "{\"similarity_score\":85,\"reasoning\":\"close\"}",
               "{\"similarity_score\":40,\"reasoning\":\"far\"}",
               "{\"similarity_score\":80}",
               "{\"similarity_score\":60,\"is_match\":false}",
               "{\"similarity_score\":40,\"is_match\":true}",
               "{\"similarity_score\":150}",
               "{\"similarity_score\":-5}",
               "{\"similarity_score\":\"85\"}",
               "{\"similarity_score\":\"high\"}",
               "{\"similarity_score\":null}",
               "{\"reasoning\":\"no score\"}",
               "~~~json\n{\"similarity_score\":100}\n~~~",
               "[85]",
               "I think they match" } }

NoFuzz == [ratio |-> 0, partial_ratio |-> 0, token_sort_ratio |-> 0, token_set_ratio |-> 0]

NoJudge == [raises |-> TRUE, msg |-> "", error |-> None, content |-> "", model |-> ""]

\* the answers of the collaborators a comparison of this type consults
Envs(comparison_type) ==
    IF comparison_type = "FUZZY" THEN {[fuzz |-> f, judge |-> NoJudge] : f \in FuzzOracles}
    ELSE IF comparison_type = "LLM" /\ comparator.llm_client # None
    THEN {[fuzz |-> NoFuzz, judge |-> j] : j \in JudgeOutcomes}
    ELSE {[fuzz |-> NoFuzz, judge |-> NoJudge]}

\* the answers the collaborators give during the comparisons of a batch
BatchEnvs(comparison_type) ==
    IF comparison_type = "FUZZY"
    THEN {[fuzz |-> f, judge |-> NoJudge] : f \in {o \in FuzzOracles : o.ratio \in {45, 91}}}
    ELSE IF comparison_type = "LLM" /\ comparator.llm_client # None
    THEN {[fuzz |-> NoFuzz, judge |-> j] :
             j \in {o \in JudgeOutcomes :
                       o.raises \/ o.content \in {"{\"similarity_score\":150}", "[85]"}}}
    ELSE {[fuzz |-> NoFuzz, judge |-> NoJudge]}

\* JSON documents with arrays, for the comparisons of type JSON and EXACT
JsonTexts ==
    { "[1,2]", "[2,1]", "[1,2]\n", "[1,true]", "[true,1]", "[\"x\",null]",
      "{\"a\":[1,2],\"m\":\"x\"}", "{\"m\":\"x\",\"a\":[1,2]}", "{\"m\":\"x\",\"a\":[2,1]}" }

CompareCalls ==
    [op : {"compare"}, expected : CompareTexts, actual : CompareTexts,
     comparison_type : ComparisonType, expected_extract_path : ExpectedPaths,
     actual_extract_path : ActualPaths]
    \cup [op : {"compare"}, expected : JsonTexts, actual : JsonTexts,
          comparison_type : {"JSON", "EXACT"}, expected_extract_path : {"$"},
          actual_extract_path : {"$"}]
    \cup [op : {"compare"}, expected : {"Hello World"},
          actual : {"hello   world", "Hello World", "hello"},
          comparison_type : {"FUZZY", "EXACT"}, expected_extract_path : {"$"},
          actual_extract_path : {"$"}]

BatchItems ==
    { DictV(<<"expected", "actual", "id">>, <<StrV("bye"), StrV("Bye"), StrV("t1")>>),
      DictV(<<"expected", "actual">>,
            <<StrV("{\"a\":1,\"m\":{\"a\":2}}"), StrV("{\"m\":{\"a\":2},\"a\":1}")>>),
      DictV(<<"actual">>, <<StrV("bye")>>) }

\* the longest list compare_batch is called with
MaxBatch == 2

RECURSIVE Batches(_)
Batches(n) ==
    IF n = 0 THEN {<<>>}
    ELSE Batches(n - 1)
         \cup {Append(b, item) : b \in {c \in Batches(n - 1) : Len(c) = n - 1}, item \in BatchItems}

BatchCalls ==
    [op : {"compare_batch"}, test_results : Batches(MaxBatch), comparison_type : ComparisonType]

Metadatas ==
    { None, DictV(<<>>, <<>>),
      DictV(<<"expected_extract_path", "actual_extract_path">>, <<StrV("$.a"), StrV("$.a")>>),
      DictV(<<"actual_extract_path">>, <<StrV("$.x")>>) }

LLMTestCalls ==
    [op : {"LLMTester.run_single_test"},
     test_case : [id : {"c1"}, input : {"say bye"},
                  expected : {"bye", "{\"a\":1,\"m\":{\"a\":2}}"},
                  system_message : {None}, metadata : Metadatas],
     comparison_type : ComparisonType]

\* what the LLM under test does with the input of a test case
Generations ==
    { [raises |-> TRUE, msg |-> "connection reset", error |-> None, content |-> "",
       model |-> "tested"],
      [raises |-> FALSE, msg |-> "", error |-> StrV("api down"), content |-> "",
       model |-> "tested"],
      [raises |-> FALSE, msg |-> "", error |-> None, content |-> "Bye", model |-> "tested"],
      [raises |-> FALSE, msg |-> "", error |-> None, content |-> "{\"m\":{\"a\":2},\"a\":1}",
       model |-> "tested"],
      [raises |-> FALSE, msg |-> "", error |-> None, content |-> "~~~json\n{\"a\":1}\n~~~",
       model |-> "tested"] }

HTTPTestCalls ==
    [op : {"HTTPTester.run_single_test"},
     test_case : [id : {"h1"}, method : {"GET"}, endpoint : {"/x"},
                  expected : {"bye", "{\"a\":1,\"m\":{\"a\":2}}"},
                  expected_status_code : {None, IntV(404)}, metadata : Metadatas],
     comparison_type : ComparisonType]

Responded(status_code, content) ==
    [raises |-> FALSE, msg |-> "", status_code |-> status_code, content |-> content,
     error |-> None]

\* what the HTTP client does with the request of a test case
Responses ==
    { [raises |-> TRUE, msg |-> "bad request data", status_code |-> 0, content |-> "",
       error |-> None],
      [raises |-> FALSE, msg |-> "", status_code |-> 0, content |-> "",
       error |-> StrV("connection refused")],
      Responded(200, "bye"), Responded(404, "bye"), Responded(500, "oops"),
      Responded(200, "{\"m\":{\"a\":2},\"a\":1}"), Responded(404, " [1, {\"a\":1}]") }

InitCompare ==
    /\ json_extractor \in [extraction_failure_mode : FailureModes]
    /\ comparator \in Comparators
    /\ \/ call \in CompareCalls
       \/ call \in BatchCalls
       \/ call \in LLMTestCalls
       \/ call \in HTTPTestCalls
    /\ pc = "call"
    /\ ret = None
    /\ answers = None
    /\ local = None
    /\ config = _get_default_config

Compare ==
    /\ pc = "call"
    /\ call.op = "compare"
    /\ \E env \in Envs(call.comparison_type) :
           /\ ret' = compare(Self, call.expected, call.actual, call.comparison_type,
                             call.expected_extract_path, call.actual_extract_path, env)
           /\ answers' = env
    /\ pc' = "done"
    /\ UNCHANGED <<json_extractor, comparator, call, local, config>>

CompareBatch ==
    /\ pc = "call"
    /\ call.op = "compare_batch"
    /\ \E envs \in [1..Len(call.test_results) -> BatchEnvs(call.comparison_type)] :
           /\ ret' = compare_batch(Self, call.test_results, call.comparison_type, envs)
           /\ answers' = envs
    /\ pc' = "done"
    /\ UNCHANGED <<json_extractor, comparator, call, local, config>>

LLMRunSingleTest ==
    /\ pc = "call"
    /\ call.op = "LLMTester.run_single_test"
    /\ \E generated \in Generations, env \in Envs(call.comparison_type) :
           /\ ret' = LLMTester_run_single_test(Self, call.test_case, call.comparison_type,
                                               generated, env)
           /\ answers' = [generated |-> generated, env |-> env]
    /\ pc' = "done"
    /\ UNCHANGED <<json_extractor, comparator, call, local, config>>

HTTPRunSingleTest ==
    /\ pc = "call"
    /\ call.op = "HTTPTester.run_single_test"
    /\ \E requested \in Responses, env \in Envs(call.comparison_type) :
           /\ ret' = HTTPTester_run_single_test(Self, call.test_case, call.comparison_type,
                                                requested, env)
           /\ answers' = [requested |-> requested, env |-> env]
    /\ pc' = "done"
    /\ UNCHANGED <<json_extractor, comparator, call, local, config>>

NextCompare == Compare \/ CompareBatch \/ LLMRunSingleTest \/ HTTPRunSingleTest

SpecCompare == InitCompare /\ [][NextCompare]_vars

(***************************************************************************)
(* The operations around the comparisons: the summary of a batch, the two  *)
(* runners of main.py, the retry loop of the LLM clients and the           *)
(* construction of an HTTPClient.  A quotient of Python is kept as the     *)
(* exact fraction.                                                         *)
(***************************************************************************)
\* n / d
Fraction(n, d) == [t |-> "float", num |-> n, den |-> d]

RECURSIVE sum(_)
\* sum(similarity_scores)
sum(similarity_scores) ==
    IF similarity_scores = <<>> THEN 0 ELSE Head(similarity_scores) + sum(Tail(similarity_scores))

\* BatchComparator.get_summary_statistics(comparison_results)
get_summary_statistics(comparison_results) ==
    IF comparison_results = <<>> THEN DictV(<<>>, <<>>)
    ELSE Let(Len(comparison_results), LAMBDA total_count :
         Let(Cardinality({i \in 1..total_count : comparison_results[i].is_match}),
             LAMBDA match_count :
         Let(Cardinality({i \in 1..total_count :
                            comparison_results[i].error_message \notin {None, StrV("")}}),
             LAMBDA error_count :
         Let([i \in 1..total_count |-> comparison_results[i].similarity_score],
             LAMBDA similarity_scores :
             DictV(<<"total_tests", "passed_tests", "failed_tests", "error_tests", "pass_rate",
                     "average_similarity", "min_similarity", "max_similarity">>,
                   <<IntV(total_count), IntV(match_count), IntV(total_count - match_count),
                     IntV(error_count), Fraction(match_count, total_count),
                     Fraction(sum(similarity_scores), total_count),
                     IntV(CHOOSE s \in {similarity_scores[i] : i \in 1..total_count} :
                              \A i \in 1..total_count : s <= similarity_scores[i]),
                     IntV(CHOOSE s \in {similarity_scores[i] : i \in 1..total_count} :
                              \A i \in 1..total_count : s >= similarity_scores[i])>>)))))

\* run_llm_test of main.py from the results of tester.run_batch_tests on.
\* raised: reading the test data, creating the client or writing a report
\* raises
run_llm_test(results, threshold, raised) ==
    IF raised THEN FALSE
    ELSE Let(Cardinality({i \in 1..Len(results) : results[i].comparison_result.is_match}),
             LAMBDA passed :
         IF results # <<>> THEN passed * FullScore >= threshold * Len(results)
         ELSE 0 >= threshold)

\* run_http_test of main.py from the results of tester.run_batch_tests on
run_http_test(results, threshold, raised) ==
    IF raised THEN FALSE
    ELSE Let(Len(results), LAMBDA total_tests :
         Let(Cardinality({i \in 1..total_tests : results[i].comparison_result.is_match}),
             LAMBDA passed_tests :
         IF total_tests > 0 THEN passed_tests * FullScore >= threshold * total_tests
         ELSE 0 >= threshold))

\* a faulty variant of the backoff: the same wait after every attempt
wait_time_Constant(retry_delay, attempt) == retry_delay

\* the wait after failed attempt number attempt of _retry_with_backoff
wait_time(retry_delay, attempt) == retry_delay * (2 ^ attempt)

\* HTTPClient.__init__(headers=headers) with config_data the data of the
\* global config: the data afterwards and the headers of the session.
\* config.get hands out the mapping config_data holds, so update changes it
\* in place; the default {} is a mapping of its own
HTTPClient_init(config_data, headers) ==
    Let(Config_get(config_data, <<"http", "headers">>, DictV(<<>>, <<>>)), LAMBDA found :
    Let(IF found.t = "dict" /\ headers # None /\ headers.keys # <<>>
        THEN DictUpdate(found, headers.keys, headers.vals) ELSE found, LAMBDA config_headers :
    Let(IF found.t = "dict" THEN config_headers ELSE headers, LAMBDA merged :
        [config_data |->
             IF Config_get(config_data, <<"http", "headers">>, None) = None THEN config_data
             ELSE DictSet(config_data, "http",
                          DictSet(DictGet(config_data, "http", None), "headers", config_headers)),
         session_headers |->
             Let(DictV(<<"User-Agent", "Accept", "Content-Type">>,
                       <<StrV("LLM-Judge-HTTP-Client/1.0"),
                         StrV("application/json, text/plain, */*"),
                         StrV("application/json")>>), LAMBDA default_headers :
                 IF merged # None /\ merged.t = "dict" /\ merged.keys # <<>>
                 THEN DictUpdate(default_headers, merged.keys, merged.vals)
                 ELSE default_headers)])))

\* self.run_single_test(test_case, comparison_type) of the tester named by
\* op, in a worker or in the sequential loop, with a system under test that
\* answers every request the same way
run_single_test(op, self, test_case) ==
    IF op = "LLMTester._run_parallel_tests"
    THEN LLMTester_run_single_test(self, test_case, "EXACT",
             [raises |-> FALSE, msg |-> "", error |-> None, content |-> "Bye",
              model |-> "tested"],
             [fuzz |-> NoFuzz, judge |-> NoJudge])
    ELSE HTTPTester_run_single_test(self, test_case, "EXACT", Responded(200, "bye"),
             [fuzz |-> NoFuzz, judge |-> NoJudge])

\* _run_sequential_tests of both testers: the results in the order of the list
_run_sequential_tests(op, self, test_cases) ==
    [i \in 1..Len(test_cases) |-> run_single_test(op, self, test_cases[i])]

\* test_case_order[id] of _run_parallel_tests: the dict built from
\* {tc.id: i for i, tc in enumerate(test_cases)} keeps the last index of an id
test_case_order(test_cases, id) ==
    (CHOOSE i \in 1..Len(test_cases) :
         /\ test_cases[i].id = id
         /\ \A j \in (i + 1)..Len(test_cases) : test_cases[j].id # id) - 1

\* results.sort(key=lambda r: test_case_order.get(r.test_case.id, ...)): the
\* sort is stable, results with equal keys keep the order they have
sort_results(results, test_cases) ==
    LET key(j) == test_case_order(test_cases, results[j].test_case.id)
        rank(j) == Cardinality({i \in 1..Len(results) :
                                   key(i) < key(j) \/ (key(i) = key(j) /\ i <= j)})
    IN  [k \in 1..Len(results) |-> results[CHOOSE j \in 1..Len(results) : rank(j) = k]]

\* a faulty variant of compare: a call that ends in the handler switches the
\* shared extractor to mode ignore
compare_step_SetsMode(self, c, th) ==
    Let(compare(self, c.expected, c.actual, c.comparison_type, c.expected_extract_path,
                c.actual_extract_path, [fuzz |-> NoFuzz, judge |-> NoJudge]), LAMBDA result :
        [th |-> [th EXCEPT !.at = "done", !.result = result],
         self |-> IF result.error_message = None THEN self
                  ELSE [self EXCEPT !.json_extractor = [extraction_failure_mode |-> "ignore"]]])

\* the next statement of TextComparator.compare in a thread that runs the
\* call c on the instance self.  th holds the thread's position and locals:
\* at "start" it extracts expected, at "expected" it extracts actual, at
\* "actual" it dispatches and completes the details; an exception ends the
\* call with the result of the handler.  The statements assign no attribute
\* of self or of self.json_extractor: the instance is handed back as it is
compare_step(self, c, th) ==
    [self |-> self,
     th |->
       CASE th.at = "start" ->
              Let(extract(self.json_extractor, c.expected, c.expected_extract_path),
                  LAMBDA extracted_expected :
                  IF extracted_expected.raised
                  THEN [th EXCEPT !.at = "done",
                                  !.result = CaughtResult(c.comparison_type, c.expected, c.actual,
                                                          extracted_expected.msg)]
                  ELSE [th EXCEPT !.at = "expected",
                                  !.extracted_expected = StrV(extracted_expected.value)])
         [] th.at = "expected" ->
              Let(extract(self.json_extractor, c.actual, c.actual_extract_path),
                  LAMBDA extracted_actual :
                  IF extracted_actual.raised
                  THEN [th EXCEPT !.at = "done",
                                  !.result = CaughtResult(c.comparison_type, c.expected, c.actual,
                                                          extracted_actual.msg)]
                  ELSE [th EXCEPT !.at = "actual",
                                  !.extracted_actual = StrV(extracted_actual.value)])
         [] th.at = "actual" ->
              [th EXCEPT !.at = "done",
                         !.result =
                             IF c.comparison_type \notin {"EXACT", "FUZZY", "CONTAINS", "JSON", "LLM"}
                             THEN CaughtResult(c.comparison_type, c.expected, c.actual,
                                      "unsupported comparison type: " \o c.comparison_type)
                             ELSE WithExtractionDetails(
                                      Dispatch(self, th.extracted_expected.s, th.extracted_actual.s,
                                               c.comparison_type,
                                               [fuzz |-> NoFuzz, judge |-> NoJudge]),
                                      c.expected_extract_path, c.actual_extract_path,
                                      th.extracted_expected.s, th.extracted_actual.s,
                                      c.expected, c.actual)]]

\* the number of threads that call compare on the shared comparator
Threads == 2

\* the longest result list that is summarized or run through main.py
MaxResults == 3

\* the longest list of test cases that is run in parallel
MaxCases == 3

\* the greatest max_retries of a client
MaxRetries == 2

\* the number of HTTPClients the process constructs
MaxClients == 2

RECURSIVE Lists(_, _)
\* the lists of at most n elements of S
Lists(S, n) ==
    IF n = 0 THEN {<<>>}
    ELSE Lists(S, n - 1) \cup {Append(l, x) : l \in {m \in Lists(S, n - 1) : Len(m) = n - 1}, x \in S}

\* results of comparisons: a match, a mismatch, a fuzzy mismatch, an error
SummaryResults ==
    { exact_match(DefaultComparator, "bye", "Bye"),
      exact_match(DefaultComparator, "bye", "hello"),
      fuzzy_match(DefaultComparator, "bye", "Good  Bye", [ratio |-> 45, partial_ratio |-> 60, token_sort_ratio |-> 45, token_set_ratio |-> 50]),
      CaughtResult("CUSTOM", "bye", "bye", "unsupported comparison type: CUSTOM") }

InitRun ==
    /\ comparator = DefaultComparator
    /\ pc = "call"
    /\ ret = None
    /\ answers = [func |-> <<>>, sleep |-> <<>>]
    /\ \/ /\ call \in [op : {"compare in threads"},
                       calls : [1..Threads ->
                                   [expected : {"{\"a\":1,\"m\":{\"a\":2}}"},
                                    actual : {"{\"m\":{\"a\":2},\"a\":1}", "bye"},
                                    comparison_type : {"EXACT", "CUSTOM"},
                                    expected_extract_path : {"$.a"},
                                    actual_extract_path : {"$.a"}]]]
          /\ json_extractor \in [extraction_failure_mode : FailureModes]
          /\ local = [t \in 1..Threads |->
                          [at |-> "start", extracted_expected |-> None,
                           extracted_actual |-> None, result |-> None]]
          /\ config = _get_default_config
       \/ /\ call \in [op : {"get_summary_statistics"},
                       comparison_results : Lists(SummaryResults, MaxResults)]
          /\ local = None
          /\ config = _get_default_config
       \/ /\ call \in [op : {"run_llm_test", "run_http_test"},
                       results : Lists({[comparison_result |-> r] : r \in SummaryResults},
                                       MaxResults),
                       threshold : {50, 80, FullScore}]
          /\ local = None
          /\ config = _get_default_config
       \/ /\ call \in [op : {"_retry_with_backoff"}, max_retries : 0..MaxRetries,
                       retry_delay : {1, 3}]
          /\ local = [attempt |-> 0, last_exception |-> None]
          /\ config = _get_default_config
       \/ /\ \/ call \in [op : {"LLMTester._run_parallel_tests"},
                          test_cases : Lists({[id |-> "c1", input |-> "say bye", expected |-> "bye",
                                               system_message |-> None, metadata |-> None],
                                              [id |-> "c1", input |-> "say hello",
                                               expected |-> "hello", system_message |-> None,
                                               metadata |-> None],
                                              [id |-> "c2", input |-> "say bye", expected |-> "bye",
                                               system_message |-> None, metadata |-> None]},
                                             MaxCases)]
             \/ call \in [op : {"HTTPTester._run_parallel_tests"},
                          test_cases : Lists({[id |-> "h1", method |-> "GET", endpoint |-> "/x",
                                               expected |-> "bye", expected_status_code |-> None,
                                               metadata |-> None],
                                              [id |-> "h1", method |-> "GET", endpoint |-> "/y",
                                               expected |-> "hello", expected_status_code |-> None,
                                               metadata |-> None],
                                              [id |-> "h2", method |-> "GET", endpoint |-> "/x",
                                               expected |-> "bye", expected_status_code |-> None,
                                               metadata |-> None]},
                                             MaxCases)]
          /\ local = [pending |-> 1..Len(call.test_cases), results |-> <<>>,
                      test_results |-> <<>>]
          /\ config = _get_default_config
       \/ /\ call \in [op : {"HTTPClient"}]
          /\ local = [constructed |-> 0, headers |-> None]
          /\ config \in { _get_default_config,
                          DictSet(_get_default_config, "http",
                                  DictSet(DictGet(_get_default_config, "http", None), "headers",
                                          DictV(<<"X-Env">>, <<StrV("prod")>>))),
                          DictSet(_get_default_config, "http",
                                  DictSet(DictGet(_get_default_config, "http", None), "headers",
                                          DictV(<<>>, <<>>))),
                          DictSet(_get_default_config, "http",
                                  DictSet(DictGet(_get_default_config, "http", None), "headers",
                                          StrV("X-Env: prod"))) }
    /\ call.op = "compare in threads" \/ json_extractor = [extraction_failure_mode |-> "ignore"]

\* BatchComparator.get_summary_statistics(comparison_results)
Summarize ==
    /\ pc = "call"
    /\ call.op = "get_summary_statistics"
    /\ ret' = get_summary_statistics(call.comparison_results)
    /\ pc' = "done"
    /\ UNCHANGED <<json_extractor, comparator, call, answers, local, config>>

\* run_llm_test(...) of main.py
RunLLMTest ==
    /\ pc = "call"
    /\ call.op = "run_llm_test"
    /\ \E raised \in BOOLEAN :
           /\ ret' = run_llm_test(call.results, call.threshold, raised)
           /\ local' = [raised |-> raised]
    /\ pc' = "done"
    /\ UNCHANGED <<json_extractor, comparator, call, answers, config>>

\* run_http_test(...) of main.py
RunHTTPTest ==
    /\ pc = "call"
    /\ call.op = "run_http_test"
    /\ \E raised \in BOOLEAN :
           /\ ret' = run_http_test(call.results, call.threshold, raised)
           /\ local' = [raised |-> raised]
    /\ pc' = "done"
    /\ UNCHANGED <<json_extractor, comparator, call, answers, config>>

\* one round of the loop of BaseLLMClient._retry_with_backoff, with the raise
\* after the loop when the round is the last.  answers.func holds what the
\* calls of func did, answers.sleep the arguments of time.sleep
RetryAttempt ==
    /\ pc = "call"
    /\ call.op = "_retry_with_backoff"
    /\ local.attempt <= call.max_retries
    /\ \E outcome \in { [raises |-> FALSE, msg |-> "", value |-> StrV("completion")],
                        [raises |-> TRUE, msg |-> "timeout", value |-> None],
                        [raises |-> TRUE, msg |-> "rate limit", value |-> None] } :
           IF ~outcome.raises
           THEN /\ ret' = Return(outcome.value)
                /\ pc' = "done"
                /\ answers' = [answers EXCEPT !.func = Append(@, outcome)]
                /\ local' = local
           ELSE /\ local' = [attempt |-> local.attempt + 1, last_exception |-> StrV(outcome.msg)]
                /\ answers' = [func |-> Append(answers.func, outcome),
                               sleep |-> IF local.attempt < call.max_retries
                                         THEN Append(answers.sleep,
                                                     wait_time(call.retry_delay, local.attempt))
                                         ELSE answers.sleep]
                /\ IF local.attempt < call.max_retries
                   THEN pc' = "call" /\ ret' = ret
                   ELSE pc' = "done" /\ ret' = Raise("Exception", outcome.msg)
    /\ UNCHANGED <<json_extractor, comparator, call, config>>

\* HTTPClient(headers=headers): local.headers is the argument of the latest
\* construction, ret the headers of its session
HTTPClientInit ==
    /\ pc = "call"
    /\ call.op = "HTTPClient"
    /\ \E headers \in { None, DictV(<<>>, <<>>),
                        DictV(<<"Authorization">>, <<StrV("Bearer t1")>>),
                        DictV(<<"X-Env">>, <<StrV("test")>>) } :
           Let(HTTPClient_init(config, headers), LAMBDA constructed :
               /\ config' = constructed.config_data
               /\ ret' = constructed.session_headers
               /\ local' = [constructed |-> local.constructed + 1, headers |-> headers])
    /\ pc' = IF local.constructed + 1 = MaxClients THEN "done" ELSE "call"
    /\ UNCHANGED <<json_extractor, comparator, call, answers>>

ParallelOps == {"LLMTester._run_parallel_tests", "HTTPTester._run_parallel_tests"}

\* one round of the loop over as_completed(future_to_test) in
\* _run_parallel_tests: a future that has not been handed out yet completes
\* and its result is appended.  run_single_test catches every Exception, so
\* future.result() does not raise
ParallelComplete ==
    /\ pc = "call"
    /\ call.op \in ParallelOps
    /\ \E i \in local.pending :
           local' = [local EXCEPT !.pending = @ \ {i},
                                  !.results = Append(@, run_single_test(call.op, Self,
                                                                        call.test_cases[i]))]
    /\ UNCHANGED <<json_extractor, comparator, pc, call, ret, answers, config>>

\* the end of _run_parallel_tests: all futures are done, the results are
\* sorted, added to self.test_results and returned
ParallelReturn ==
    /\ pc = "call"
    /\ call.op \in ParallelOps
    /\ local.pending = {}
    /\ ret' = sort_results(local.results, call.test_cases)
    /\ local' = [local EXCEPT !.test_results = @ \o sort_results(local.results, call.test_cases)]
    /\ pc' = "done"
    /\ UNCHANGED <<json_extractor, comparator, call, answers, config>>

\* a thread runs its next statement of compare on the shared comparator; the
\* call is over when every thread has its result
CompareStep ==
    /\ pc = "call"
    /\ call.op = "compare in threads"
    /\ \E t \in 1..Threads :
           /\ local[t].at # "done"
           /\ Let(compare_step(Self, call.calls[t], local[t]), LAMBDA step :
                  /\ local' = [local EXCEPT ![t] = step.th]
                  /\ comparator' = [fuzzy_threshold |-> step.self.fuzzy_threshold,
                                    ignore_case |-> step.self.ignore_case,
                                    ignore_whitespace |-> step.self.ignore_whitespace,
                                    llm_client |-> step.self.llm_client]
                  /\ json_extractor' = step.self.json_extractor
                  /\ ret' = [u \in 1..Threads |-> IF u = t THEN step.th.result
                                                  ELSE local[u].result]
                  /\ pc' = IF \A u \in 1..Threads : u = t \/ local[u].at = "done"
                           THEN IF step.th.at = "done" THEN "done" ELSE "call"
                           ELSE "call")
    /\ UNCHANGED <<call, answers, config>>

NextRun ==
    \/ CompareStep
    \/ Summarize
    \/ RunLLMTest
    \/ RunHTTPTest
    \/ RetryAttempt
    \/ HTTPClientInit
    \/ ParallelComplete
    \/ ParallelReturn

SpecRun == InitRun /\ [][NextRun]_vars

(***************************************************************************)
(* Properties.  Those of extract are checked under SpecExtract, those of   *)
(* compare, compare_batch and the testers under SpecCompare.               *)
(***************************************************************************)
Extracted == pc = "done" /\ call.op = "extract"

\* the path is resolved by the single-stage rules
SingleStage(path) == ~IsRootPath(path) /\ ~_has_nested_extraction(path)

\* the content does not parse or the walk along the path raises
WalkFails(content, path) ==
    _parse_json_safely(content) = None
    \/ _extract_by_path(_parse_json_safely(content), path).raised

\* C1: extract with the path "$" or "" returns the content unchanged and does
\* not raise, whatever the content and the failure mode
C1_RootPathIsIdentity ==
    (Extracted /\ call.extract_path \in {"", "$"})
        => (~ret.raised /\ ret.value = call.content)

C1_Witness ==
    /\ Extracted
    /\ call.extract_path = "$"
    /\ call.content = "not json"
    /\ json_extractor.extraction_failure_mode = "error"
    /\ ~ret.raised
    /\ ret.value = "not json"

\* C2: when single-stage extraction fails (no JSON, or a path segment does not
\* resolve), mode ignore returns the content, mode empty returns "" and mode
\* error raises
C2_FailureModePolicy ==
    (Extracted /\ SingleStage(call.extract_path) /\ WalkFails(call.content, call.extract_path))
        => CASE json_extractor.extraction_failure_mode = "ignore" ->
                    ~ret.raised /\ ret.value = call.content
             [] json_extractor.extraction_failure_mode = "empty" ->
                    ~ret.raised /\ ret.value = ""
             [] json_extractor.extraction_failure_mode = "error" ->
                    ret.raised /\ ret.exc = "ValueError"

C2_Witness ==
    /\ Extracted
    /\ call.extract_path = "$.x"
    /\ call.content = "{\"a\":1,\"m\":{\"a\":2}}"
    /\ json_extractor.extraction_failure_mode = "error"
    /\ ret.raised

Compared == pc = "done" /\ call.op = "compare"

\* the exception that reaches the handler of compare during the call, if any
Reached ==
    LET extracted_expected == extract(json_extractor, call.expected, call.expected_extract_path)
        extracted_actual == extract(json_extractor, call.actual, call.actual_extract_path)
    IN  IF extracted_expected.raised THEN [caught |-> TRUE, e |-> extracted_expected.msg]
        ELSE IF extracted_actual.raised THEN [caught |-> TRUE, e |-> extracted_actual.msg]
        ELSE IF call.comparison_type \notin {"EXACT", "FUZZY", "CONTAINS", "JSON", "LLM"}
        THEN [caught |-> TRUE, e |-> "unsupported comparison type: " \o call.comparison_type]
        ELSE [caught |-> FALSE, e |-> ""]

ResultFields ==
    {"is_match", "similarity_score", "comparison_type", "expected", "actual", "diff",
     "details", "error_message"}

\* C3: compare always returns a ComparisonResult; when an exception reached
\* its handler (a path that does not resolve in mode error, a comparison type
\* that is not implemented) the result is no match with score 0, carries the
\* exception text, the original expected and actual and the requested type
C3_ExceptionBecomesResult ==
    Compared =>
        /\ DOMAIN ret = ResultFields
        /\ Reached.caught =>
              /\ ret.is_match = FALSE
              /\ ret.similarity_score = 0
              /\ ret.error_message = StrV(Reached.e)
              /\ ret.expected = call.expected
              /\ ret.actual = call.actual
              /\ ret.comparison_type = call.comparison_type

C3_Witness ==
    /\ Compared
    /\ json_extractor.extraction_failure_mode = "error"
    /\ call.actual_extract_path = "$.x"
    /\ call.expected_extract_path = "$.a"
    /\ call.expected = "{\"a\":1,\"m\":{\"a\":2}}"
    /\ call.comparison_type = "FUZZY"
    /\ ret.error_message # None
    /\ ret.expected = call.expected

\* the results a finished call returned
Results ==
    CASE call.op = "compare" -> {ret}
      [] call.op = "compare_batch" -> {ret[i] : i \in 1..Len(ret)}
      [] call.op \in {"LLMTester.run_single_test", "HTTPTester.run_single_test"} ->
             {ret.comparison_result}
      [] OTHER -> {}

\* C4: a result of compare, compare_batch or a tester that has error_message
\* set is no match and has score 0
C4_ErrorMeansNoMatch ==
    pc = "done" =>
        \A r \in Results : r.error_message # None => (r.is_match = FALSE /\ r.similarity_score = 0)

C4_Witness ==
    /\ pc = "done"
    /\ call.op = "HTTPTester.run_single_test"
    /\ ret.status_code_match
    /\ ret.http_response.error = None
    /\ ret.comparison_result.error_message # None
    /\ ret.comparison_result.is_match = FALSE

BookkeepingKeys ==
    {"expected_extract_path", "actual_extract_path", "extracted_expected", "extracted_actual",
     "original_expected", "original_actual"}

HasBookkeeping(r) == r.details # None /\ \A k \in BookkeepingKeys : HasKey(r.details, k)

\* C5 as claimed: every result of compare has details with the six extraction
\* keys, whatever the outcome
C5_DetailsAlways == Compared => HasBookkeeping(ret)

\* C5: a result compare returns without an exception reaching its handler
\* (match, mismatch, error handled inside a mode) has details with the six
\* extraction keys; a result converted from an exception has no details
C5_DetailsUnlessCaught ==
    Compared => IF Reached.caught THEN ret.details = None ELSE HasBookkeeping(ret)

C5_Witness ==
    /\ Compared
    /\ call.comparison_type = "JSON"
    /\ call.expected_extract_path = "$.a"
    /\ call.actual = "bye"
    /\ ret.error_message # None
    /\ HasBookkeeping(ret)
    /\ DictGet(ret.details, "original_actual", None) = StrV("bye")

\* C6: the expected and actual of the result of compare are the arguments of
\* the call, the texts before extraction
C6_ResultKeepsOriginals ==
    Compared => (ret.expected = call.expected /\ ret.actual = call.actual)

\* C7: the similarity_score of every result of compare lies between 0 and 1
C7_ScoreInUnitInterval ==
    Compared => (0 <= ret.similarity_score /\ ret.similarity_score <= FullScore)

\* the JSON text of a scalar: the characters of a string, the literal otherwise
NaturalText(v) == IF v.t = "str" THEN v.s ELSE json_dumps(v)

\* C8: a path that resolves to a scalar yields the JSON text of the scalar
\* (null, true and false for the literals)
C8_ScalarYieldsJsonText ==
    (Extracted /\ SingleStage(call.extract_path)
       /\ ~WalkFails(call.content, call.extract_path)
       /\ _extract_by_path(_parse_json_safely(call.content), call.extract_path).value.t
              \notin {"dict", "list"})
        => (~ret.raised
            /\ ret.value = NaturalText(
                   _extract_by_path(_parse_json_safely(call.content), call.extract_path).value))

\* the JSON document a string embeds, as plain JSON text or in a fenced block
Embedded(S) ==
    LET m == FenceMatch(S)
        inner == strip(Slice(S, m.open, m.close))
    IN  IF ~json_loads(S).raised THEN [ok |-> TRUE, J |-> S]
        ELSE IF m.open # 0 /\ ~json_loads(inner).raised THEN [ok |-> TRUE, J |-> inner]
        ELSE [ok |-> FALSE, J |-> ""]

RECURSIVE LastMarker(_, _)
\* the last position <= k at which ".$" occurs in path, 0 when there is none
LastMarker(path, k) ==
    IF k < 1 THEN 0
    ELSE IF Slice(path, k, k + 1) = ".$" THEN k
    ELSE LastMarker(path, k - 1)

RECURSIVE Addressed(_, _)
\* the string a path addresses in a content, read from the right: the part
\* before the last marker addresses a string, the rest is resolved in the
\* document that string embeds
Addressed(content, P) ==
    LET k == LastMarker(P, Len(P))
        outer == Addressed(content, Slice(P, 1, k - 1))
        doc == Embedded(outer.s)
        data == _parse_json_safely(content)
        v == _extract_by_path(data, P)
    IN  IF IsRootPath(P) THEN [ok |-> TRUE, s |-> content]
        ELSE IF k # 0
        THEN (IF outer.ok /\ doc.ok THEN Addressed(doc.J, "$" \o Slice(P, k + 2, Len(P)))
              ELSE [ok |-> FALSE, s |-> ""])
        ELSE IF data # None /\ ~v.raised /\ v.value.t = "str" THEN [ok |-> TRUE, s |-> v.value.s]
        ELSE [ok |-> FALSE, s |-> ""]

\* C9: when the part P of the path before a marker addresses a string that
\* embeds the JSON document J, extract(content, P.$R) is extract(J, $R), and J
\* itself when R is empty
C9_NestedIsTwoStep ==
    Extracted =>
        \A k \in 1..Len(call.extract_path) :
            LET P == Slice(call.extract_path, 1, k - 1)
                R == Slice(call.extract_path, k + 2, Len(call.extract_path))
                S == Addressed(call.content, P)
                doc == Embedded(S.s)
                twoStep == extract(json_extractor, doc.J, "$" \o R)
            IN  (Slice(call.extract_path, k, k + 1) = ".$" /\ S.ok /\ doc.ok)
                    => /\ ret.raised = twoStep.raised
                       /\ ~ret.raised => ret.value = twoStep.value
                       /\ R = "" => (~ret.raised /\ ret.value = doc.J)

C9_Witness ==
    /\ Extracted
    /\ call.extract_path = "$.m.$.m.$.a"
    /\ Addressed(call.content, "$.m.$.m").ok
    /\ ~ret.raised
    /\ ret.value = "ok"

\* a stage of a nested path fails: the part before the first marker, or the
\* part after it in the document found in the intermediate string
StageFails(content, path) ==
    LET first_path == NestedSplit(path).first_path
        remaining_path == NestedSplit(path).remaining_path
        S == Addressed(content, first_path)
    IN  \/ ~IsRootPath(first_path) /\ WalkFails(content, first_path)
        \/ /\ S.ok
           /\ SingleStage("$" \o remaining_path)
           /\ WalkFails(_extract_json_string_from_text(S.s), "$" \o remaining_path)

\* C10: in mode ignore a nested path of which a stage fails returns the
\* original top-level content
C10_NestedFailureReturnsContent ==
    (Extracted /\ json_extractor.extraction_failure_mode = "ignore"
       /\ _has_nested_extraction(call.extract_path)
       /\ StageFails(call.content, call.extract_path))
        => (~ret.raised /\ ret.value = call.content)


\* no JSON document can be recovered from the string: it does not parse, its
\* fenced block (if any) does not parse, and no brace-delimited part parses
NoJsonIn(S) ==
    /\ json_loads(S).raised
    /\ ~Embedded(S).ok
    /\ \A i \in 1..Len(S), j \in 1..Len(S) :
           (i < j /\ Char(S, i) = "{" /\ Char(S, j) = "}") => json_loads(Slice(S, i, j)).raised

\* C11: when the remainder after the marker is empty or "$" and the
\* intermediate string holds no JSON, the failure policy is applied to the
\* intermediate string: ignore returns it, empty returns "", error raises
C11_FinalStepFailurePolicy ==
    LET parts == NestedSplit(call.extract_path)
        S == Addressed(call.content, parts.first_path)
    IN  (Extracted /\ _has_nested_extraction(call.extract_path)
           /\ parts.remaining_path \in {"", "$"} /\ S.ok /\ NoJsonIn(S.s))
            => CASE json_extractor.extraction_failure_mode = "ignore" ->
                        ~ret.raised /\ ret.value = S.s
                 [] json_extractor.extraction_failure_mode = "empty" ->
                        ~ret.raised /\ ret.value = ""
                 [] json_extractor.extraction_failure_mode = "error" -> ret.raised


RECURSIVE Markers(_, _)
\* the number of occurrences of ".$" in path from position i on
Markers(path, i) ==
    IF i >= Len(path) THEN 0
    ELSE (IF Slice(path, i, i + 1) = ".$" THEN 1 ELSE 0) + Markers(path, i + 1)

RECURSIVE Shrinks(_)
\* at the level that resolves path and at every level below it, the two
\* paths handed to the recursive calls of extract are shorter than the path
\* of the level, the first of them holds no marker and the second one less
Shrinks(path) ==
    (~IsRootPath(path) /\ _has_nested_extraction(path)) =>
        LET parts == NestedSplit(path)
            rest == "$" \o parts.remaining_path
        IN  /\ parts.nested_pos >= 0
            /\ Len(parts.first_path) < Len(path)
            /\ ~_has_nested_extraction(parts.first_path)
            /\ Len(rest) < Len(path)
            /\ Markers(rest, 1) < Markers(path, 1)
            /\ parts.first_path # "" => Shrinks(parts.first_path)
            /\ parts.remaining_path \notin {"", "$"} => Shrinks(rest)

\* C12: every recursive call of extract made from _extract_nested_json gets a
\* path strictly shorter than the path of the calling level, the part before
\* the first marker holds no marker, and the number of nesting levels is at
\* most the number of markers of the original path
C12_NestedPathsShrink ==
    Extracted =>
        /\ Shrinks(call.extract_path)
        /\ NestingLevels(call.extract_path) <= Markers(call.extract_path, 1)

C12_Witness ==
    /\ Extracted
    /\ call.extract_path = "$.m.$.m.$.a"
    /\ Markers(call.extract_path, 1) = 2
    /\ NestingLevels(call.extract_path) = 2
    /\ call.content = "{\"m\":\"{\\\"m\\\":\\\"{\\\\\\\"a\\\\\\\":\\\\\\\"ok\\\\\\\"}\\\"}\"}"
    /\ ret = Return("ok")


Validated == pc = "done" /\ call.op = "validate_path"

RECURSIVE Count(_, _, _)
\* the number of occurrences of the character c among the first k of path
Count(path, c, k) ==
    IF k = 0 THEN 0 ELSE (IF Char(path, k) = c THEN 1 ELSE 0) + Count(path, c, k - 1)

\* C13: validate_path returns true exactly when the path is non-empty, starts
\* with "$", holds no "..", has "." as second character when longer than one
\* character, and its brackets balance; it never raises
C13_ValidatePathIff ==
    Validated =>
        LET p == call.path IN
        /\ ~ret.raised
        /\ ret.value = (/\ p # ""
                        /\ Char(p, 1) = "$"
                        /\ \A i \in 1..(Len(p) - 1) : Slice(p, i, i + 1) # ".."
                        /\ Len(p) > 1 => Char(p, 2) = "."
                        /\ \A k \in 1..Len(p) : Count(p, "]", k) <= Count(p, "[", k)
                        /\ Count(p, "]", Len(p)) = Count(p, "[", Len(p)))

C13_Witness ==
    /\ Validated
    /\ call.path = "$.hobbies[0]"
    /\ ret = Return(TRUE)


\* the two outcomes are the same return value or are both an exception
SameOutcome(a, b) == a.raised = b.raised /\ (~a.raised => a.value = b.value)

\* the failure policy applied to a content
Policy(self, content) ==
    CASE self.extraction_failure_mode = "ignore" -> Return(content)
      [] self.extraction_failure_mode = "empty" -> Return("")
      [] self.extraction_failure_mode = "error" -> Raise("ValueError", "")

\* the outcome of the single-stage rules: the text of the value the path
\* addresses, the failure policy when the content or the path does not resolve
SingleStageOutcome(self, content, path) ==
    LET v == _extract_by_path(_parse_json_safely(content), path).value IN
    IF WalkFails(content, path) THEN Policy(self, content)
    ELSE Return(IF v.t \in {"dict", "list"} THEN json_dumps(v) ELSE str(v))

\* the outcome extract has when it takes a path as nested exactly when ".$"
\* occurs in it at one of the 1-based positions from..Len(path) - 1
DetectedFrom(from) ==
    IF \E i \in from..(Len(call.extract_path) - 1) : Slice(call.extract_path, i, i + 1) = ".$"
    THEN _extract_nested_json(json_extractor, call.content, call.extract_path)
    ELSE SingleStageOutcome(json_extractor, call.content, call.extract_path)

\* C14 as claimed: extract resolves a path as nested exactly when ".$" occurs
\* in it at an index >= 1 (0-based), and single-stage otherwise
C14_NestedIffMarkerAfterStart ==
    (Extracted /\ ~IsRootPath(call.extract_path)) => SameOutcome(ret, DetectedFrom(2))

\* C14: extract resolves a path as nested exactly when ".$" occurs in it at
\* any index, the start of the path included, and single-stage otherwise
C14_NestedIffMarkerAnywhere ==
    (Extracted /\ ~IsRootPath(call.extract_path)) => SameOutcome(ret, DetectedFrom(1))

C14_Witness ==
    /\ Extracted
    /\ call.extract_path = ".$.a"
    /\ call.content = "{\"a\":1,\"m\":{\"a\":2}}"
    /\ ret = Return("1")


RECURSIVE LastOpen(_, _)
\* the last position <= k of "[" in path, 0 when there is none
LastOpen(path, k) ==
    IF k < 1 THEN 0 ELSE IF Char(path, k) = "[" THEN k ELSE LastOpen(path, k - 1)

\* N is a decimal integer: one or more digits
IsDecimal(N) == N # "" /\ \A i \in 1..Len(N) : IsDigit(Char(N, i))

\* C15: a path that ends in [N] resolves only when the value reached before
\* the token is a list and N is a decimal integer with 0 <= N < its length;
\* otherwise the failure policy is applied to the original content
C15_IndexOnlyIntoLists ==
    LET path == call.extract_path
        k == LastOpen(path, Len(path))
        N == Slice(path, k + 1, Len(path) - 1)
        reached == _extract_by_path(_parse_json_safely(call.content), Slice(path, 1, k - 1))
        v == reached.value
        n == ScanDigits(N, 1, 0).val
    IN  (Extracted /\ SingleStage(path) /\ ~contains(path, "[*]") /\ endswith(path, "]") /\ k > 1
           /\ _parse_json_safely(call.content) # None /\ ~reached.raised)
            => SameOutcome(ret,
                   IF v.t = "list" /\ IsDecimal(N) /\ n < Len(v.items)
                   THEN Return(IF v.items[n + 1].t \in {"dict", "list"}
                               THEN json_dumps(v.items[n + 1]) ELSE str(v.items[n + 1]))
                   ELSE Policy(json_extractor, call.content))


\* compare in LLM mode consulted the judge and the judge replied
Judged ==
    /\ Compared
    /\ call.comparison_type = "LLM"
    /\ ~Reached.caught
    /\ comparator.llm_client # None
    /\ ~answers.judge.raises
    /\ answers.judge.error = None

\* the JSON value the reply of the judge holds, as plain JSON text or in a
\* fenced block
ReplyValue == json_loads(Embedded(answers.judge.content).J).value

\* the reply of the judge is a JSON object
ReplyIsObject == Embedded(answers.judge.content).ok /\ ReplyValue.t = "dict"

\* C16: when the reply of the judge is a JSON object with a numeric
\* similarity_score s, the result has the score s/100 and matches exactly when
\* s/100 reaches the fuzzy_threshold of the comparator, whatever else the reply
\* says
C16_ThresholdDecides ==
    (Judged /\ ReplyIsObject /\ DictGet(ReplyValue, "similarity_score", None).t = "int")
        => LET s == DictGet(ReplyValue, "similarity_score", None).n IN
           /\ ret.similarity_score = s
           /\ ret.is_match = (s >= comparator.fuzzy_threshold)
           /\ ret.error_message = None

C16_Witness ==
    /\ Judged
    /\ answers.judge.content = "{\"similarity_score\":60,\"is_match\":false}"
    /\ comparator.fuzzy_threshold = 50
    /\ ret.is_match = TRUE
    /\ ret.similarity_score = 60


\* the reply of the judge is not of the expected shape: it is no JSON object,
\* the similarity_score is missing, or the similarity_score is no number (nor
\* the text of one)
Malformed ==
    \/ ~ReplyIsObject
    \/ ~HasKey(ReplyValue, "similarity_score")
    \/ float(DictGet(ReplyValue, "similarity_score", None)).raised

\* C17: a reply of the judge that is not of the expected shape gives no match,
\* score 0 and an error_message that includes the raw reply
C17_MalformedReplyIsError ==
    (Judged /\ Malformed)
        => /\ ret.is_match = FALSE
           /\ ret.similarity_score = 0
           /\ ret.error_message # None
           /\ contains(ret.error_message.s, answers.judge.content)


NotConfigured == StrV("LLM client not configured")

\* the judge was consulted and its response carries an error: the result is
\* no match with a message other than the one of the missing judge
JudgeErrorIsNoMatch ==
    (Compared /\ call.comparison_type = "LLM" /\ ~Reached.caught /\ comparator.llm_client # None
       /\ ~answers.judge.raises /\ answers.judge.error # None)
        => /\ ret.is_match = FALSE
           /\ ret.similarity_score = 0
           /\ ret.error_message \notin {None, NotConfigured}

\* C18 as claimed: without an llm_client, compare in LLM mode returns, for
\* every input, no match with score 0 and the message of the missing judge
C18_NoJudgeAlways ==
    /\ (Compared /\ call.comparison_type = "LLM" /\ comparator.llm_client = None)
          => /\ DOMAIN ret = ResultFields
             /\ ret.is_match = FALSE
             /\ ret.similarity_score = 0
             /\ ret.error_message = NotConfigured
    /\ JudgeErrorIsNoMatch

\* C18: without an llm_client, compare in LLM mode never raises and returns
\* no match with score 0; the message is the one of the missing judge for
\* every input whose extraction does not raise, and the message of the
\* extraction otherwise
C18_NoJudgeUnlessCaught ==
    /\ (Compared /\ call.comparison_type = "LLM" /\ comparator.llm_client = None)
          => /\ DOMAIN ret = ResultFields
             /\ ret.is_match = FALSE
             /\ ret.similarity_score = 0
             /\ ret.error_message = IF Reached.caught THEN StrV(Reached.e) ELSE NotConfigured
    /\ JudgeErrorIsNoMatch

C18_Witness ==
    /\ Compared
    /\ call.comparison_type = "LLM"
    /\ comparator.llm_client = None
    /\ call.expected = call.actual
    /\ call.actual_extract_path = "$.a"
    /\ json_extractor.extraction_failure_mode = "error"
    /\ ret.error_message = NotConfigured


RECURSIVE SameJson(_, _)
\* the two JSON values are the same up to the order of the keys of objects
SameJson(x, y) ==
    IF x.t # y.t THEN FALSE
    ELSE IF x.t = "list"
    THEN Len(x.items) = Len(y.items) /\ \A i \in 1..Len(x.items) : SameJson(x.items[i], y.items[i])
    ELSE IF x.t = "dict"
    THEN /\ {x.keys[i] : i \in 1..Len(x.keys)} = {y.keys[i] : i \in 1..Len(y.keys)}
         /\ \A i \in 1..Len(x.keys) : \A j \in 1..Len(y.keys) :
                x.keys[i] = y.keys[j] => SameJson(x.vals[i], y.vals[j])
    ELSE x = y

RECURSIVE Swapped(_, _)
\* y is x with two different elements of one array exchanged
Swapped(x, y) ==
    IF x.t # y.t THEN FALSE
    ELSE IF x.t = "list"
    THEN /\ Len(x.items) = Len(y.items)
         /\ \E i \in 1..Len(x.items) : \E j \in (i + 1)..Len(x.items) :
                /\ ~SameJson(x.items[i], x.items[j])
                /\ y.items = [x.items EXCEPT ![i] = x.items[j], ![j] = x.items[i]]
    ELSE IF x.t = "dict"
    THEN /\ x.keys = y.keys
         /\ \E i \in 1..Len(x.keys) :
                /\ Swapped(x.vals[i], y.vals[i])
                /\ \A j \in 1..Len(x.keys) : j # i => x.vals[j] = y.vals[j]
    ELSE FALSE

\* C19: in JSON mode the score is 1.0 on match and 0.0 otherwise; the match
\* stays what it is when the keys of objects of actual are permuted, and a
\* match becomes a mismatch when two different elements of an array of actual
\* are exchanged
C19_JsonIsStructural ==
    (Compared /\ call.comparison_type = "JSON"
       /\ call.expected_extract_path = "$" /\ call.actual_extract_path = "$"
       /\ ~json_loads(call.expected).raised /\ ~json_loads(call.actual).raised)
        => /\ ret.similarity_score = IF ret.is_match THEN FullScore ELSE 0
           /\ \A permuted \in {t \in CompareTexts \cup JsonTexts : ~json_loads(t).raised} :
                  LET a == json_loads(call.actual).value
                      p == json_loads(permuted).value
                      r == json_match(Self, call.expected, permuted)
                  IN  /\ SameJson(a, p) => r.is_match = ret.is_match
                      /\ (Swapped(a, p) /\ ret.is_match) => ~r.is_match


\* C20: in EXACT mode the result matches exactly when the normalized extracted
\* strings are equal, the score is 1.0 on match and 0.0 otherwise, diff is set
\* exactly when there is no match, and a text matches itself under every
\* setting of ignore_case and ignore_whitespace
C20_ExactIsNormalizedEquality ==
    (Compared /\ call.comparison_type = "EXACT" /\ ~Reached.caught)
        => LET e == extract(json_extractor, call.expected, call.expected_extract_path).value
               a == extract(json_extractor, call.actual, call.actual_extract_path).value
           IN  /\ ret.is_match = (_normalize_text(comparator, e) = _normalize_text(comparator, a))
               /\ ret.similarity_score = IF ret.is_match THEN FullScore ELSE 0
               /\ (ret.diff # None) <=> ~ret.is_match
               /\ ret.error_message = None
               /\ \A ic \in BOOLEAN, iw \in BOOLEAN :
                      exact_match([Self EXCEPT !.ignore_case = ic, !.ignore_whitespace = iw],
                                  call.actual, call.actual).is_match

C20_Witness ==
    /\ Compared
    /\ call.comparison_type = "EXACT"
    /\ call.expected = "[1,2]"
    /\ call.actual = "[1,2]\n"
    /\ comparator.ignore_whitespace
    /\ ret.is_match
    /\ ret.diff = None


\* a FUZZY comparison that reached fuzzy_match
Fuzzed == Compared /\ call.comparison_type = "FUZZY" /\ ~Reached.caught

\* the normalized texts fuzzy_match works on
Normalized ==
    [expected |-> _normalize_text(comparator,
                      extract(json_extractor, call.expected, call.expected_extract_path).value),
     actual |-> _normalize_text(comparator,
                    extract(json_extractor, call.actual, call.actual_extract_path).value)]

SubScores == {"ratio", "partial_ratio", "token_sort_ratio", "token_set_ratio"}

\* C21: in FUZZY mode similarity_score is the greatest of the four sub-scores
\* ratio, partial_ratio, token_sort_ratio and token_set_ratio, is_match holds
\* exactly when that maximum is at least fuzzy_threshold, details records the
\* four sub-scores and the threshold, and two strings that are equal after
\* normalization score 1.0
C21_FuzzyIsMaxOfFour ==
    Fuzzed
        => Let(Normalized, LAMBDA norm :
           Let(fuzz(answers.fuzz, norm.expected, norm.actual), LAMBDA returned :
               /\ \A k \in SubScores : DictGet(ret.details, k, None) = IntV(returned[k])
               /\ DictGet(ret.details, "threshold", None) = IntV(comparator.fuzzy_threshold)
               /\ \E k \in SubScores : ret.similarity_score = returned[k]
               /\ \A k \in SubScores : ret.similarity_score >= returned[k]
               /\ ret.is_match = (ret.similarity_score >= comparator.fuzzy_threshold)
               /\ ret.error_message = None
               /\ norm.expected = norm.actual => ret.similarity_score = FullScore /\ ret.is_match))

C21_Witness ==
    /\ Fuzzed
    /\ call.expected = "Hello World"
    /\ call.actual = "hello   world"
    /\ comparator.ignore_case /\ comparator.ignore_whitespace
    /\ answers.fuzz.ratio = 45
    /\ ret.similarity_score = FullScore
    /\ ret.is_match


Batched == pc = "done" /\ call.op = "compare_batch"

\* the verdict of a comparison result
Verdict(r) ==
    [is_match |-> r.is_match, similarity_score |-> r.similarity_score,
     comparison_type |-> r.comparison_type, expected |-> r.expected, actual |-> r.actual,
     diff |-> r.diff, error_message |-> r.error_message]

\* C22: compare_batch returns one result for each record of its input, result
\* i is the comparison of record i and carries details.test_index = i, and a
\* record whose comparison fails gives a result with error_message set at its
\* own position without changing or dropping the result of another record
C22_BatchKeepsPositions ==
    Batched
        => /\ Len(ret) = Len(call.test_results)
           /\ \A i \in 1..Len(call.test_results) :
                  Let(compare(Self, DictGet(call.test_results[i], "expected", StrV("")).s,
                              DictGet(call.test_results[i], "actual", StrV("")).s,
                              call.comparison_type, "$", "$", answers[i]), LAMBDA alone :
                      /\ i <= Len(ret)
                      /\ DictGet(ret[i].details, "test_index", None) = IntV(i - 1)
                      /\ Verdict(ret[i]) = Verdict(alone)
                      /\ \A k \in 1..Len(ret[i].details.keys) :
                             ret[i].details.keys[k] \notin {"test_index", "test_id"}
                                 => DictGet(alone.details, ret[i].details.keys[k], None)
                                        = ret[i].details.vals[k])

C22_Witness ==
    /\ Batched
    /\ call.comparison_type = "LLM"
    /\ Len(call.test_results) = 2
    /\ answers[1].judge.raises
    /\ ~answers[2].judge.raises
    /\ Len(ret) = 2
    /\ ret[1].error_message # None
    /\ DictGet(ret[1].details, "test_index", None) = IntV(0)
    /\ ret[2].error_message = None
    /\ DictGet(ret[2].details, "test_index", None) = IntV(1)


\* the place of the first [*] in the path of the call, 0 when it has none
WildcardAt == FindFrom(call.extract_path, "[*]", 1)

\* the path of the call up to and including its first [*]
UpToWildcard == Slice(call.extract_path, 1, WildcardAt + 2)

\* what follows the first [*] in the path of the call
AfterWildcard == Slice(call.extract_path, WildcardAt + 3, Len(call.extract_path))

\* C28: a [*] ends the walk.  When the value reached at a [*] token is a list,
\* extract returns that list as compact JSON whatever follows the wildcard in
\* the path, so a path with a suffix after [*] that holds no ".$" marker gives
\* the outcome of the path cut after [*]
C28_WildcardEndsWalk ==
    (Extracted /\ WildcardAt # 0 /\ ~contains(AfterWildcard, ".$"))
        => /\ SameOutcome(ret, extract(json_extractor, call.content, UpToWildcard))
           /\ (SingleStage(UpToWildcard) /\ ~WalkFails(call.content, UpToWildcard))
                  => LET reached == _extract_by_path(_parse_json_safely(call.content),
                                                     UpToWildcard).value
                     IN  reached.t = "list" /\ ret = Return(json_dumps(reached))

C28_Witness ==
    /\ Extracted
    /\ call.content = "{\"a\":[1,\"s\",[2]],\"m\":\"pq\"}"
    /\ call.extract_path = "$.a[*].x"
    /\ ret = Return("[1,\"s\",[2]]")


LLMTested == pc = "done" /\ call.op = "LLMTester.run_single_test"

\* C30: in LLMTester a test case whose LLM response carries an error is never
\* reported as passed: llm_response.error set implies that
\* comparison_result.is_match is false
C30_ErroredNeverPasses ==
    (LLMTested /\ ret.llm_response.error # None) => ~ret.comparison_result.is_match


Summarized == pc = "done" /\ call.op = "get_summary_statistics"

\* the number x is the quotient n / d
IsQuotient(x, n, d) ==
    /\ x # None
    /\ x.t \in {"int", "float"}
    /\ IF x.t = "int" THEN x.n * d = n ELSE x.num * d = n * x.den

\* C23: get_summary_statistics is a function of the result sequence alone: for
\* every sequence, the empty one included, it returns total = the number of
\* results, passed = the number with is_match, failed = total - passed,
\* errors = the number with error_message set and pass_rate = passed / total
\* (0 when total is 0), with the average, least and greatest similarity
C23_SummaryCounts ==
    Summarized
        => LET results == call.comparison_results
               total == Len(results)
               passed == Cardinality({i \in 1..total : results[i].is_match})
               errors == Cardinality({i \in 1..total : results[i].error_message # None})
               scores == [i \in 1..total |-> results[i].similarity_score]
           IN  /\ DictGet(ret, "total_tests", None) = IntV(total)
               /\ DictGet(ret, "passed_tests", None) = IntV(passed)
               /\ DictGet(ret, "failed_tests", None) = IntV(total - passed)
               /\ DictGet(ret, "error_tests", None) = IntV(errors)
               /\ IF total = 0 THEN IsQuotient(DictGet(ret, "pass_rate", None), 0, 1)
                  ELSE /\ IsQuotient(DictGet(ret, "pass_rate", None), passed, total)
                       /\ IsQuotient(DictGet(ret, "average_similarity", None), sum(scores), total)
                       /\ \E i \in 1..total : DictGet(ret, "min_similarity", None) = IntV(scores[i])
                       /\ \E i \in 1..total : DictGet(ret, "max_similarity", None) = IntV(scores[i])
                       /\ \A i \in 1..total :
                              /\ DictGet(ret, "min_similarity", None).n <= scores[i]
                              /\ DictGet(ret, "max_similarity", None).n >= scores[i]

Ran == pc = "done" /\ call.op \in {"run_llm_test", "run_http_test"}

\* C25: run_llm_test and run_http_test return True exactly when every executed
\* test case passed, that is when comparison_result.is_match holds for all
\* results; a run in which a test case failed returns False
C25_TrueIffAllPassed ==
    Ran => (ret = \A i \in 1..Len(call.results) : call.results[i].comparison_result.is_match)

Retrying == call.op = "_retry_with_backoff"

\* C27: _retry_with_backoff with max_retries = n >= 0 calls the function at
\* most n + 1 times, returns the value of the first successful call without a
\* further call, raises the exception of the last attempt only after n + 1
\* failures in a row, waits retry_delay * 2^k after failed attempt k < n, and
\* does not wait after the final attempt
C27_RetryWithBackoff ==
    Retrying
        => LET n == call.max_retries
               calls == answers.func
               failures == Cardinality({i \in 1..Len(calls) : calls[i].raises})
           IN  /\ Len(calls) <= n + 1
               /\ \A i \in 1..(Len(calls) - 1) : calls[i].raises
               /\ (pc = "done") <=> (calls # <<>> /\ (~calls[Len(calls)].raises \/ Len(calls) = n + 1))
               /\ (pc = "done" /\ ~ret.raised)
                      => ~calls[Len(calls)].raises /\ ret.value = calls[Len(calls)].value
               /\ (pc = "done" /\ ret.raised)
                      => failures = n + 1 /\ ret.msg = calls[n + 1].msg
               /\ Len(answers.sleep) = Min(failures, n)
               /\ \A k \in 1..Len(answers.sleep) :
                      answers.sleep[k] = call.retry_delay * (2 ^ (k - 1))

C27_Witness ==
    /\ Retrying
    /\ pc = "done"
    /\ call.max_retries = 2
    /\ call.retry_delay = 3
    /\ Len(answers.func) = 3
    /\ answers.sleep = <<3, 6>>
    /\ ret = Raise("Exception", "rate limit")

\* C29: constructing an HTTPClient with a headers argument leaves the
\* process-wide configuration as it was: config.get('http.headers') has the
\* same content before and after the construction
C29_ConfigUnchanged ==
    [][call.op = "HTTPClient"
           => Config_get(config', <<"http", "headers">>, None)
                  = Config_get(config, <<"http", "headers">>, None)]_vars


\* C26: parallel batch execution keeps the order of the input: for every list
\* of test cases (ids need not be distinct) and every order in which the
\* workers complete, _run_parallel_tests of LLMTester and of HTTPTester
\* returns one result per test case in the order of the input list, the list
\* the sequential path returns
C26_ParallelKeepsOrder ==
    (pc = "done" /\ call.op \in ParallelOps)
        => ret = _run_sequential_tests(call.op, Self, call.test_cases)


Threaded == call.op = "compare in threads"

\* C24: sharing one instance is safe.  compare and extract never write an
\* attribute of the TextComparator or the JSONExtractor they run on, so in
\* every interleaving of concurrent compare calls on one shared comparator
\* each call returns the result it returns when run alone
C24_SharedInstanceSafe ==
    /\ [](Threaded
            => \A t \in 1..Threads :
                   local[t].at = "done"
                       => /\ ret[t] = local[t].result
                          /\ ret[t] = compare(Self, call.calls[t].expected, call.calls[t].actual,
                                              call.calls[t].comparison_type,
                                              call.calls[t].expected_extract_path,
                                              call.calls[t].actual_extract_path,
                                              [fuzz |-> NoFuzz, judge |-> NoJudge]))
    /\ [][Threaded => (comparator' = comparator /\ json_extractor' = json_extractor)]_vars

\* one call is over while the other is between its two extractions
C24_Witness ==
    /\ Threaded
    /\ call.calls[1].actual = "bye"
    /\ call.calls[2].actual # "bye"
    /\ json_extractor.extraction_failure_mode = "error"
    /\ local[1].at = "expected"
    /\ local[2].at = "done"
    /\ ret[2].is_match
    /\ ret[1] = None

=============================================================================
